---- MODULE Spec2Model ----
(***************************************************************************)
(* Model of the MonthlyReport ingestion pipeline (src/parse_reports.py):   *)
(* the two orchestrators process_sharepoint_files and                      *)
(* process_sharepoint_list_files, the candidate filters they apply to the  *)
(* rows of the SharePoint list, the file resolver                          *)
(* download_sharepoint_file_from_path and the workbook processing /        *)
(* publishing step, with get_sharepoint_list_items                         *)
(* (src/search_sharepoint.py) and get_secret (src/keyvault.py).            *)
(*                                                                         *)
(* Python strings are sequences of one-character strings.  Python values   *)
(* read from the JSON of a list row are records [t, n, s] (type tag,       *)
(* numeric value, string value).  The Graph API is the environment: the    *)
(* status of every HTTP call is chosen nondeterministically.               *)
(***************************************************************************)
EXTENDS Integers, Sequences, FiniteSets, TLC

VARIABLES
    prog,           \* entry point that runs: "psf", "pslf", "dsffp", "pwc",
                    \* "upload", "glist" or "get_secret"
    pc,             \* position of the running function
    items,          \* rows of the SharePoint list "Service Provider Uploads"
    cands,          \* excel_files / report_files: the accepted candidates
    idx,            \* position of the per-item loop in cands (1-based)
    success_count,  \* success_count of the orchestrator
    ret,            \* value returned by the entry point
    arg_path,       \* sharepoint_path argument / report_info['path']
    arg_filename,   \* filename argument / report_info['filename']
    encoded_path,   \* encoded path the direct lookup of the resolver fetches
    site_id,        \* TRUE when the site id was obtained
    download_url,   \* download handle found by process_sharepoint_list_files
    file_content,   \* content returned by the resolver (or NoContent)
    parsed_data,    \* parsed_data of process_sharepoint_list_files
    search_results, \* items of the last search response
    j,              \* position of the loop over search_results
    trace,          \* calls and stage events of the item being handled
    attempted,      \* positions of cands whose loop body was entered
    marked,         \* ids of the rows whose processed flag the run has set
    outputs,        \* files written or uploaded for the item being handled
    content,        \* workbook held by the bytes given to the processing
    access_token,   \* access_token argument of the workbook processing
    original_name,  \* original_name argument of the workbook processing
    merged_cells,   \* sheet.merged_cells.ranges of the loaded workbook
    content_lines,  \* content_lines of _process_workbook_data
    files,          \* artifacts existing on SharePoint and on the local disk
    run,            \* number of the call of the workbook processing (1 or 2)
    first,          \* content and text at the end of the first call
    offered,        \* rows that the scans of earlier runs returned
    environ         \* os.environ and the arguments of get_secret

\* the state of the workbook processing taken alone
wbvars == <<content, access_token, original_name, merged_cells, content_lines,
            files, run, first>>

vars == <<prog, pc, items, cands, idx, success_count, ret, arg_path,
          arg_filename, encoded_path, site_id, download_url, file_content,
          parsed_data, search_results, j, trace, attempted, marked, outputs,
          offered, environ, wbvars>>

-----------------------------------------------------------------------------
(* Bounds *)

MaxItems == 2
MaxResults == 2
MaxFilled == 2
MaxCandidates == 51
MaxDrives == 1

-----------------------------------------------------------------------------
(* Python strings *)

RECURSIVE LStrip(_)
LStrip(s) == IF s # <<>> /\ Head(s) = " " THEN LStrip(Tail(s)) ELSE s

RECURSIVE RStrip(_)
RStrip(s) ==
    IF s # <<>> /\ s[Len(s)] = " " THEN RStrip(SubSeq(s, 1, Len(s) - 1)) ELSE s

\* str.strip()
Strip(s) == RStrip(LStrip(s))

\* str.rstrip('/')
RECURSIVE RStripSlash(_)
RStripSlash(s) ==
    IF s # <<>> /\ s[Len(s)] = "/"
    THEN RStripSlash(SubSeq(s, 1, Len(s) - 1)) ELSE s

\* str.startswith(p)
StartsWith(s, p) == Len(s) >= Len(p) /\ SubSeq(s, 1, Len(p)) = p

\* s[n:]
DropPrefix(s, n) == SubSeq(s, n + 1, Len(s))

\* s[:n]
TakePrefix(s, n) == SubSeq(s, 1, IF Len(s) < n THEN Len(s) ELSE n)

\* sub in s
Contains(s, sub) ==
    \E k \in 0..(Len(s) - Len(sub)) : SubSeq(s, k + 1, k + Len(sub)) = sub

\* s.replace('//', '/'): one left-to-right pass over non-overlapping matches
RECURSIVE ReplaceDoubleSlash(_)
ReplaceDoubleSlash(s) ==
    IF Len(s) < 2 THEN s
    ELSE IF s[1] = "/" /\ s[2] = "/"
         THEN <<"/">> \o ReplaceDoubleSlash(DropPrefix(s, 2))
         ELSE <<s[1]>> \o ReplaceDoubleSlash(Tail(s))

\* urllib.parse.quote(s, safe='/') on the characters used here
RECURSIVE Quote(_)
Quote(s) ==
    IF s = <<>> THEN <<>>
    ELSE (IF Head(s) = " " THEN <<"%", "2", "0">> ELSE <<Head(s)>>)
         \o Quote(Tail(s))

\* position of the last '.' in s, 0 when there is none
RECURSIVE LastDot(_)
LastDot(s) ==
    IF s = <<>> THEN 0
    ELSE IF s[Len(s)] = "." THEN Len(s)
         ELSE LastDot(SubSeq(s, 1, Len(s) - 1))

Str_xlsx == <<".", "x", "l", "s", "x">>
Str_txt == <<".", "t", "x", "t">>
Str_SharedDocuments == <<"S", "h", "a", "r", "e", "d", " ",
                         "D", "o", "c", "u", "m", "e", "n", "t", "s", "/">>
Str_SlashSharedDocuments == <<"/">> \o Str_SharedDocuments
Str_JulianBrown == <<"J", "u", "l", "i", "a", "n", " ", "B", "r", "o", "w", "n">>
Str_Alice == <<"A", "l", "i", "c", "e">>
Str_Yes == <<"Y", "e", "s">>
Str_true == <<"t", "r", "u", "e">>
Str_True == <<"T", "r", "u", "e">>
Str_1 == <<"1">>
Str_No == <<"N", "o">>
Str_CSFlexWeekly == <<"C", "S", " ", "F", "l", "e", "x", " ",
                      "W", "e", "e", "k", "l", "y">>
Str_temp == <<"t", "e", "m", "p", "_">>
Str_ReportSummary == <<"R", "e", "p", "o", "r", "t", "_",
                       "S", "u", "m", "m", "a", "r", "y", "_">>
Str_DefaultTarget ==
    <<"s", "i", "t", "e", "s", "/", "I", "n", "t", "e", "r", "n", "a", "l",
      "T", "e", "a", "m", "/">> \o Str_SharedDocuments \o
    <<"M", "o", "n", "t", "h", "l", "y", "R", "e", "p", "o", "r", "t", "s",
      "/", "2", "0", "2", "5", "/", "0", "9", " ", "-", " ",
      "S", "e", "p", "t", "e", "m", "b", "e", "r">>

-----------------------------------------------------------------------------
(* Python values *)

PyNone == [t |-> "none", n |-> 0, s |-> <<>>]
PyBool(b) == [t |-> "bool", n |-> IF b THEN 1 ELSE 0, s |-> <<>>]
PyInt(k) == [t |-> "int", n |-> k, s |-> <<>>]
PyStr(str) == [t |-> "str", n |-> 0, s |-> str]

\* marks a key that the dict does not have
Absent == [t |-> "absent", n |-> 0, s |-> <<>>]

IsNumeric(v) == v.t \in {"bool", "int"}

\* a == b
PyEq(a, b) ==
    \/ IsNumeric(a) /\ IsNumeric(b) /\ a.n = b.n
    \/ a.t = "str" /\ b.t = "str" /\ a.s = b.s
    \/ a.t = "none" /\ b.t = "none"

\* bool(v)
Truthy(v) ==
    \/ IsNumeric(v) /\ v.n # 0
    \/ v.t = "str" /\ v.s # <<>>

\* a or b
PyOr(a, b) == IF Truthy(a) THEN a ELSE b

\* dict.get(k, d)
Get(f, k, d) == IF k \in DOMAIN f THEN f[k] ELSE d

-----------------------------------------------------------------------------
(* Rows of the list and the candidate filters *)

\* the literals of [True, 'Yes', 'true', '1', 1, 'True']
ProcessedLiterals ==
    <<PyBool(TRUE), PyStr(Str_Yes), PyStr(Str_true), PyStr(Str_1), PyInt(1),
      PyStr(Str_True)>>

\* variant: any truthy value counts as processed
InProcessedLiteralsTruthy(v) == Truthy(v)

\* v in [True, 'Yes', 'true', '1', 1, 'True']
InProcessedLiterals(v) ==
    \E k \in 1..Len(ProcessedLiterals) : PyEq(v, ProcessedLiterals[k])

\* the chain of fields.get(...) or ... or False of process_sharepoint_files
monthly_report_processed_psf(fields) ==
    PyOr(Get(fields, "Monthly_x0020_Report_x0020_Processed", PyNone),
      PyOr(Get(fields, "MonthlyReportProcessed", PyNone),
        PyOr(Get(fields, "monthly_report_processed", PyNone),
          PyOr(Get(fields, "Monthly Report Processed", PyNone),
               PyBool(FALSE)))))

\* filename = f"{filename.strip()}.xlsx"
NormalizeFilename(filename) == Strip(filename) \o Str_xlsx

\* the entry appended to excel_files / report_files for row k
Candidate(k, filename, path, item_id) ==
    [row |-> k, filename |-> filename, path |-> path, item_id |-> item_id,
     full_url |-> RStripSlash(path) \o <<"/">> \o filename]

\* whether the filter loop of process_sharepoint_files appends the row
AcceptsPSF(fields) ==
    LET filename == NormalizeFilename(Get(fields, "Reportfilename", PyStr(<<>>)).s)
        mrp == monthly_report_processed_psf(fields)
    IN  filename # <<>> /\ ~InProcessedLiterals(mrp)

CandidatePSF(rows, k) ==
    LET fields == rows[k].fields
    IN  Candidate(k,
                  NormalizeFilename(Get(fields, "Reportfilename", PyStr(<<>>)).s),
                  Get(fields, "Path", PyStr(<<>>)).s,
                  rows[k].id)

\* whether the filter loop of process_sharepoint_list_files appends the row
AcceptsPSLF(fields) ==
    LET path == Get(fields, "Path", PyStr(<<>>)).s
        filename == Get(fields, "Reportfilename", PyStr(<<>>)).s
        mrp == Get(fields, "Monthlyreportprocessed", PyNone)
        manager == Get(fields, "manager", PyStr(<<>>))
    IN  /\ ~(mrp = PyBool(TRUE))
        /\ ~(~PyEq(manager, PyStr(Str_JulianBrown)))
        /\ ~(path = <<>> \/ filename = <<>>)
        /\ filename # <<>> /\ path # <<>>
        /\ ~InProcessedLiterals(mrp)

CandidatePSLF(rows, k) ==
    LET fields == rows[k].fields
    IN  Candidate(k,
                  Get(fields, "Reportfilename", PyStr(<<>>)).s,
                  Get(fields, "Path", PyStr(<<>>)).s,
                  rows[k].id)

\* the rows of the list, in order, that the loop appends
RECURSIVE FilterFrom(_, _, _)
FilterFrom(rows, k, which) ==
    IF k > Len(rows) THEN <<>>
    ELSE (IF which = "psf"
          THEN (IF AcceptsPSF(rows[k].fields)
                THEN <<CandidatePSF(rows, k)>> ELSE <<>>)
          ELSE (IF AcceptsPSLF(rows[k].fields)
                THEN <<CandidatePSLF(rows, k)>> ELSE <<>>))
         \o FilterFrom(rows, k + 1, which)

excel_files(rows) == FilterFrom(rows, 1, "psf")
report_files(rows) == FilterFrom(rows, 1, "pslf")

max_files == 50

\* report_files[:max_files]
Slice(s, n) == SubSeq(s, 1, IF Len(s) < n THEN Len(s) ELSE n)

-----------------------------------------------------------------------------
(* Inputs: rows the list can hold *)

ProcessedColumns ==
    {"Monthlyreportprocessed", "Monthly_x0020_Report_x0020_Processed",
     "MonthlyReportProcessed", "monthly_report_processed",
     "Monthly Report Processed"}

\* representations of the processed flag met in the rows
FlagValues ==
    {PyBool(TRUE), PyBool(FALSE), PyStr(Str_Yes), PyStr(Str_true),
     PyStr(Str_1), PyInt(1), PyStr(Str_True), PyInt(0), PyInt(2),
     PyStr(Str_No), PyStr(<<>>), PyNone}

Str_Reports == <<"R", "e", "p", "o", "r", "t", "s", "/", "2", "0", "2", "5">>
Str_Weekly == <<"W", "e", "e", "k", "l", "y">>
Str_W1 == <<"W", "1", ".", "x", "l", "s", "x">>

PathValues == {Absent, PyStr(<<>>), PyStr(Str_Reports)}
FilenameValues == {Absent, PyStr(<<>>), PyStr(Str_Weekly), PyStr(Str_W1)}
ManagerValues == {Absent, PyStr(Str_JulianBrown), PyStr(Str_Alice)}

\* the fields dict of a row: a key is present only when its value is not Absent
MkFields(path, filename, manager, column, flag) ==
    LET D == (IF path = Absent THEN {} ELSE {"Path"})
             \cup (IF filename = Absent THEN {} ELSE {"Reportfilename"})
             \cup (IF manager = Absent THEN {} ELSE {"manager"})
             \cup (IF flag = Absent THEN {} ELSE {column})
    IN  [k \in D |-> CASE k = "Path" -> path
                       [] k = "Reportfilename" -> filename
                       [] k = "manager" -> manager
                       [] OTHER -> flag]

\* every combination of the field values, one processed column at a time
RichFields ==
    {MkFields(p, f, m, c, v) :
        p \in PathValues, f \in FilenameValues, m \in ManagerValues,
        c \in ProcessedColumns, v \in FlagValues \cup {Absent}}

\* the rows the runs of the orchestrators are explored with: an eligible
\* row, a row of another manager, a row without path and filename (the
\* processed flag, its columns and its values are explored by SpecScan)
RunFields ==
    {MkFields(PyStr(Str_Reports), PyStr(Str_Weekly), PyStr(Str_JulianBrown),
              "Monthlyreportprocessed", PyBool(FALSE)),
     MkFields(PyStr(Str_Reports), PyStr(Str_Weekly), PyStr(Str_Alice),
              "Monthlyreportprocessed", PyBool(FALSE)),
     MkFields(PyStr(<<>>), Absent, PyStr(Str_JulianBrown),
              "Monthlyreportprocessed", PyBool(FALSE))}

\* lists of at most n rows with the given fields; row k has id k
RowLists(fieldSet, n) ==
    UNION {{[k \in 1..m |-> [id |-> k, fields |-> fs[k]]] :
                fs \in [1..m -> fieldSet]} : m \in 0..n}

-----------------------------------------------------------------------------
(* The Graph API as environment *)

\* requests raised instead of answering
ConnErr == 0

HttpStatus == {200, 204, 401, 403, 404}
Resp == HttpStatus \cup {ConnErr}

\* what the bytes of a downloaded file are
FileData == {"empty", "corrupt", "nosheet", "report"}

Str_WeeklyXlsx == Str_Weekly \o Str_xlsx
Str_CSFlexW1 == Str_CSFlexWeekly \o <<" ">> \o Str_W1
Str_Old == <<"O", "l", "d", ".", "x", "l", "s", "x">>

\* names of the files of the drive that a search for filename can return
DriveNames(filename) == {filename, Str_CSFlexW1, Str_Old}

\* the 'value' array of a search response: at most MaxResults drive items
ResultLists(filename) ==
    UNION {{[k \in 1..m |-> [id |-> k, name |-> ns[k]]] :
                ns \in [1..m -> DriveNames(filename)]} : m \in 0..MaxResults}

NoContent == [via |-> "none", id |-> 0, name |-> <<>>, data |-> "none"]
Content(via, id, name, data) ==
    [via |-> via, id |-> id, name |-> name, data |-> data]

\* `if not file_content`: None and b'' are both falsy
NoFileContent(c) == c = NoContent \/ c.data = "empty"

NoUrl == [via |-> "none", id |-> 0, name |-> <<>>]
Url(via, id, name) == [via |-> via, id |-> id, name |-> name]

NotReturned == [t |-> "running", n |-> 0, s |-> <<>>]

-----------------------------------------------------------------------------
(* download_sharepoint_file_from_path *)

\* variant: only the form without a leading slash is removed
DirectFilePathOneForm(sharepoint_path, filename) ==
    LET target_path ==
            IF sharepoint_path # <<>> /\ Strip(sharepoint_path) # <<>>
            THEN (IF StartsWith(sharepoint_path, Str_SharedDocuments)
                  THEN DropPrefix(sharepoint_path, Len(Str_SharedDocuments))
                  ELSE sharepoint_path)
            ELSE Str_DefaultTarget
        file_path ==
            IF target_path # <<>>
            THEN <<"/">> \o target_path \o <<"/">> \o filename
            ELSE <<"/">> \o filename
    IN  Quote(ReplaceDoubleSlash(file_path))

\* the encoded path fetched by the direct lookup
DirectFilePath(sharepoint_path, filename) ==
    LET target_path ==
            IF sharepoint_path # <<>> /\ Strip(sharepoint_path) # <<>>
            THEN (IF StartsWith(sharepoint_path, Str_SharedDocuments)
                  THEN DropPrefix(sharepoint_path, Len(Str_SharedDocuments))
                  ELSE IF StartsWith(sharepoint_path, Str_SlashSharedDocuments)
                  THEN DropPrefix(sharepoint_path, Len(Str_SlashSharedDocuments))
                  ELSE sharepoint_path)
            ELSE Str_DefaultTarget
        file_path ==
            IF target_path # <<>>
            THEN <<"/">> \o target_path \o <<"/">> \o filename
            ELSE <<"/">> \o filename
    IN  Quote(ReplaceDoubleSlash(file_path))

\* return c from the resolver
DL_Return(c, events) ==
    /\ file_content' = c
    /\ trace' = trace \o events
    /\ pc' = "dl_ret"

\* whether a 200 answer of the direct metadata fetch ends the resolution
DirectEndsResolution(status) == status = 200

\* path construction and site id fetch (lines 808-841)
DL_Site ==
    /\ pc = "dl_site"
    /\ encoded_path' = DirectFilePath(arg_path, arg_filename)
    /\ \E r \in Resp :
        IF r = 200
        THEN /\ site_id' = TRUE
             /\ trace' = Append(trace, "site_ok")
             /\ pc' = "dl_direct"
             /\ UNCHANGED file_content
        ELSE /\ DL_Return(NoContent,
                            IF r = ConnErr THEN <<"site_fail", "exception">>
                            ELSE <<"site_fail">>)
             /\ UNCHANGED site_id
    /\ UNCHANGED <<prog, items, cands, idx, success_count, ret, arg_path,
                   arg_filename, download_url, parsed_data, search_results, j,
                   attempted, marked, outputs>>
    /\ UNCHANGED <<wbvars, offered, environ>>

\* direct path lookup: metadata fetch, then content fetch (lines 843-857)
DL_Direct ==
    /\ pc = "dl_direct"
    /\ \E r \in Resp :
        IF r = ConnErr
        THEN DL_Return(NoContent, <<"direct_meta_fail", "exception">>)
        ELSE IF DirectEndsResolution(r)
        THEN \E url \in BOOLEAN :
             IF ~url
             THEN DL_Return(NoContent, <<"direct_meta_ok", "direct_no_url">>)
             ELSE \E c \in Resp :
             IF c = 200
             THEN \E d \in FileData :
                  DL_Return(Content("direct", 0, arg_filename, d),
                            <<"direct_meta_ok", "direct_content_ok">>)
             ELSE DL_Return(NoContent,
                            IF c = ConnErr
                            THEN <<"direct_meta_ok", "direct_content_fail",
                                   "exception">>
                            ELSE <<"direct_meta_ok", "direct_content_fail">>)
        ELSE /\ trace' = Append(trace, "direct_meta_fail")
             /\ pc' = "dl_search"
             /\ UNCHANGED file_content
    /\ UNCHANGED <<prog, items, cands, idx, success_count, ret, arg_path,
                   arg_filename, encoded_path, site_id, download_url,
                   parsed_data, search_results, j, attempted, marked,
                   outputs>>
    /\ UNCHANGED <<wbvars, offered, environ>>

\* the search request of the fallback (lines 859-864)
DL_Search ==
    /\ pc = "dl_search"
    /\ \E r \in Resp :
        IF r = 200
        THEN \E res \in ResultLists(arg_filename) :
             /\ search_results' = res
             /\ j' = 1
             /\ trace' = Append(trace, "exact_search_ok")
             /\ pc' = "dl_loop"
             /\ UNCHANGED file_content
        ELSE /\ DL_Return(NoContent,
                            IF r = ConnErr
                            THEN <<"exact_search_fail", "exception">>
                            ELSE <<"exact_search_fail">>)
             /\ UNCHANGED <<search_results, j>>
    /\ UNCHANGED <<prog, items, cands, idx, success_count, ret, arg_path,
                   arg_filename, encoded_path, site_id, download_url,
                   parsed_data, attempted, marked, outputs>>
    /\ UNCHANGED <<wbvars, offered, environ>>

\* variant: the first search result is taken whatever its name
ExactNameAny(name, filename) == TRUE

\* item.get('name') == filename
ExactName(name, filename) == name = filename

\* one iteration of the loop over the search results (lines 866-881)
DL_SearchItem ==
    /\ pc = "dl_loop"
    /\ IF j > Len(search_results)
       THEN /\ DL_Return(NoContent, <<"not_found">>)
            /\ search_results' = <<>> /\ j' = 0
       ELSE LET item == search_results[j] IN
            IF ~ExactName(item.name, arg_filename)
            THEN /\ j' = j + 1
                 /\ UNCHANGED <<pc, file_content, trace, search_results>>
            ELSE \E r \in Resp :
            IF r = ConnErr
            THEN /\ DL_Return(NoContent, <<"exact_detail_fail", "exception">>)
                 /\ search_results' = <<>> /\ j' = 0
            ELSE IF r # 200
            THEN /\ j' = j + 1
                 /\ trace' = Append(trace, "exact_detail_fail")
                 /\ UNCHANGED <<pc, file_content, search_results>>
            ELSE \E url \in BOOLEAN :
            IF ~url
            THEN /\ j' = j + 1
                 /\ trace' = trace \o <<"exact_detail_ok", "exact_no_url">>
                 /\ UNCHANGED <<pc, file_content, search_results>>
            ELSE \E c \in Resp :
            IF c = ConnErr
            THEN /\ DL_Return(NoContent, <<"exact_detail_ok",
                                             "exact_content_fail", "exception">>)
                 /\ search_results' = <<>> /\ j' = 0
            ELSE IF c # 200
            THEN /\ j' = j + 1
                 /\ trace' = trace \o <<"exact_detail_ok", "exact_content_fail">>
                 /\ UNCHANGED <<pc, file_content, search_results>>
            ELSE \E d \in FileData :
                 /\ DL_Return(Content("search", item.id, item.name, d),
                              <<"exact_detail_ok", "exact_content_ok">>)
                 /\ search_results' = <<>> /\ j' = 0
    /\ UNCHANGED <<prog, items, cands, idx, success_count, ret, arg_path,
                   arg_filename, encoded_path, site_id, download_url,
                   parsed_data, attempted, marked, outputs>>
    /\ UNCHANGED <<wbvars, offered, environ>>

-----------------------------------------------------------------------------
(* Workbook processing and publishing *)

\* name, ext = output_name.rsplit('.', 1) ...; fname = f"{name}.txt"
ArtifactName(output_name) ==
    LET d == LastDot(output_name)
    IN  (IF d > 0 THEN SubSeq(output_name, 1, d - 1) ELSE output_name)
        \o Str_txt

Output(pos, name, where, kind) ==
    [pos |-> pos, name |-> name, where |-> where, kind |-> kind]

\* _process_workbook_data after a successful load_workbook: the result, the
\* stage events and the files published.  upload_ok is the result of
\* upload_text_to_sharepoint, write_ok tells whether open()/write() succeed
ProcessWorkbookData(pos, data, output_name, has_token, upload_ok, write_ok) ==
    LET fname == ArtifactName(output_name) IN
    IF data = "nosheet"
    THEN [ok |-> FALSE, ev |-> <<"extract_start", "extract_fail">>, out |-> {}]
    ELSE IF has_token /\ upload_ok
    THEN [ok |-> TRUE,
          ev |-> <<"extract_start", "extract_ok", "upload_ok">>,
          out |-> {Output(pos, fname, "remote", "artifact")}]
    ELSE IF write_ok
    THEN [ok |-> TRUE,
          ev |-> <<"extract_start", "extract_ok">>
                 \o (IF has_token THEN <<"upload_fail">> ELSE <<>>)
                 \o <<"local_write_ok">>,
          out |-> {Output(pos, fname, "local", "artifact")}]
    ELSE [ok |-> FALSE,
          ev |-> <<"extract_start", "extract_ok">>
                 \o (IF has_token THEN <<"upload_fail">> ELSE <<>>)
                 \o <<"local_write_fail">>,
          out |-> {}]

\* process_workbook_content_from_memory / process_workbook_content:
\* load_workbook raises on bytes that are no workbook
ProcessWorkbookContent(pos, data, output_name, has_token, upload_ok, write_ok) ==
    IF data \in {"corrupt", "empty"}
    THEN [ok |-> FALSE, ev |-> <<"extract_start", "extract_fail">>, out |-> {}]
    ELSE ProcessWorkbookData(pos, data, output_name, has_token, upload_ok,
                             write_ok)

-----------------------------------------------------------------------------
(* The workbook: sheet, merged ranges, extraction, artifact text *)

Str_WeekEnding ==
    <<"W", "e", "e", "k", " ", "E", "n", "d", "i", "n", "g",
      ":", " ">>
Str_ServiceProvider ==
    <<"S", "e", "r", "v", "i", "c", "e", " ", "P", "r", "o",
      "v", "i", "d", "e", "r", ":", " ">>
Str_Client ==
    <<"C", "l", "i", "e", "n", "t", ":", " ">>
Str_ServiceStandardUpdates ==
    <<"S", "e", "r", "v", "i", "c", "e", " ", "S", "t", "a",
      "n", "d", "a", "r", "d", " ", "u", "p", "d", "a",
      "t", "e", "s", ":">>
Str_SSNHeader ==
    <<"S", "S", "N", "|", "S", "t", "a", "t", "u", "s", "|",
      "C", "o", "m", "m", "e", "n", "t", "s">>
Str_ServiceRisks ==
    <<"S", "e", "r", "v", "i", "c", "e", " ", "R", "i", "s",
      "k", "s", ":">>
Str_RiskHeader ==
    <<"R", "i", "s", "k", " ", "N", "o", "|", "D", "e", "s",
      "c", "r", "i", "p", "t", "i", "o", "n", "|", "L",
      "i", "k", "e", "l", "i", "h", "o", "o", "d", "|",
      "I", "m", "p", "a", "c", "t", "|", "M", "i", "t",
      "i", "g", "a", "t", "i", "o", "n">>
Str_ServiceIssues ==
    <<"S", "e", "r", "v", "i", "c", "e", " ", "I", "s", "s",
      "u", "e", "s", ":">>
Str_IssueHeader ==
    <<"I", "s", "s", "u", "e", " ", "N", "o", "|", "D", "e",
      "s", "c", "r", "i", "p", "t", "i", "o", "n", "|",
      "I", "m", "p", "a", "c", "t", "|", "M", "i", "t",
      "i", "g", "a", "t", "i", "o", "n">>
Str_PlannedActivities ==
    <<"P", "l", "a", "n", "n", "e", "d", " ", "A", "c", "t",
      "i", "v", "i", "t", "i", "e", "s", ":">>
Str_ClientUpdates ==
    <<"C", "l", "i", "e", "n", "t", " ", "U", "p", "d", "a",
      "t", "e", "s", ":">>
Str_None ==
    <<"N", "o", "n", "e">>
Str_False ==
    <<"F", "a", "l", "s", "e">>
Str_TwoDots ==
    <<"v", "1", ".", "2", ".", "x", "l", "s", "x">>

\* a merged range, by its bounds (min_col, min_row, max_col, max_row)
Range(min_col, min_row, max_col, max_row) ==
    [min_col |-> min_col, min_row |-> min_row,
     max_col |-> max_col, max_row |-> max_row]

\* cell_coord in merged_range
InRange(col, row, r) ==
    /\ r.min_col <= col /\ col <= r.max_col
    /\ r.min_row <= row /\ row <= r.max_row

\* variant: the sheet has some merged range, wherever it is
is_cell_merged_any(ranges, col, row) == ranges # {}

\* is_cell_merged(sheet, coord): some merged range contains the cell
is_cell_merged(ranges, col, row) == \E r \in ranges : InRange(col, row, r)

\* variant: only ranges that lie wholly inside the rectangle
OverlapsInside(r) ==
    /\ r.min_col >= 4 /\ r.max_col <= 19
    /\ r.min_row >= 31 /\ r.max_row <= 72

\* not (max_col < 4 or min_col > 19 or max_row < 31 or min_row > 72)
Overlaps(r) ==
    ~(r.max_col < 4 \/ r.min_col > 19 \/ r.max_row < 31 \/ r.min_row > 72)

\* the loop over list(sheet.merged_cells.ranges) with sheet.unmerge_cells
Unmerge(ranges) == {r \in ranges : ~Overlaps(r)}

\* the merge handling of E33 (lines 287-299)
NormalizeMerges(ranges) ==
    IF is_cell_merged(ranges, 5, 33) THEN Unmerge(ranges) ELSE ranges

ColumnLetters ==
    <<"A", "B", "C", "D", "E", "F", "G", "H", "I", "J", "K", "L", "M", "N",
      "O", "P", "Q", "R", "S", "T", "U">>

DigitChars == <<"0", "1", "2", "3", "4", "5", "6", "7", "8", "9">>

\* str(n) of a non-negative int
RECURSIVE Digits(_)
Digits(n) ==
    IF n < 10 THEN <<DigitChars[n + 1]>>
    ELSE Digits(n \div 10) \o <<DigitChars[(n % 10) + 1]>>

\* the coordinate of a cell, as in f'D{row}'
CellName(col, row) == <<ColumnLetters[col]>> \o Digits(row)

\* the workbooks given to the processing: a report sheet is described by the
\* rows whose identifier cell (column D) is filled and by its merged ranges
ReportContent(ids, merged) ==
    [kind |-> "report", ids |-> ids, merged |-> merged]

\* bytes that are no workbook, or a workbook without active sheet
OtherContent(kind) == [kind |-> kind, ids |-> {}, merged |-> {}]

NoWorkbook == OtherContent("none")

\* the value stored in a cell of the file: an identifier cell holds its
\* coordinate when it is filled, D41 holds the number 0, D67 and the header
\* cell G13 are empty, and every other cell holds its own coordinate as
\* text; row 34, when filled, is the service standard SSN1 / Green / ok
StoredValue(c, col, row) ==
    IF row = 34 /\ 34 \in c.ids /\ col \in {4, 10, 11}
    THEN (IF col = 4 THEN PyStr(<<"S", "S", "N", "1">>)
          ELSE IF col = 10 THEN PyStr(<<"G", "r", "e", "e", "n">>)
          ELSE PyStr(<<"o", "k">>))
    ELSE IF col = 4 /\ row \in 33..53
    THEN (IF row \in c.ids THEN PyStr(CellName(col, row))
          ELSE IF row = 41 THEN PyInt(0) ELSE PyNone)
    ELSE IF (col = 4 /\ row = 67) \/ (col = 7 /\ row = 13) THEN PyNone
    ELSE PyStr(CellName(col, row))

\* sheet[coord].value after load_workbook: the cells of a merged range other
\* than its top-left cell are MergedCells and have no value; unmerge_cells
\* replaces them by empty cells
CellValue(c, col, row) ==
    IF \E r \in c.merged :
            InRange(col, row, r) /\ ~(col = r.min_col /\ row = r.min_row)
    THEN PyNone
    ELSE StoredValue(c, col, row)

\* f"{v}" / str(v)
FormatValue(v) ==
    CASE v.t = "str" -> v.s
      [] v.t = "int" -> Digits(v.n)
      [] v.t = "bool" -> (IF v.n = 1 THEN Str_True ELSE Str_False)
      [] OTHER -> Str_None

\* sep.join(list)
RECURSIVE JoinWith(_, _)
JoinWith(list, sep) ==
    IF list = <<>> THEN <<>>
    ELSE IF Len(list) = 1 THEN list[1]
    ELSE list[1] \o sep \o JoinWith(Tail(list), sep)

\* "\n".join(content_lines)
JoinLines(lines) == JoinWith(lines, <<"\n">>)

\* variant: the values of a row are separated by commas
RowLineCommas(c, row, cols) ==
    JoinWith([k \in 1..Len(cols) |-> FormatValue(CellValue(c, cols[k], row))],
             <<",">>)

\* f"{sheet[f'D{row}'].value}|{sheet[f'J{row}'].value}|..." for the columns
RowLine(c, row, cols) ==
    JoinWith([k \in 1..Len(cols) |-> FormatValue(CellValue(c, cols[k], row))],
             <<"|">>)

\* variant: every row of the range is emitted
IncludedAlways(v) == TRUE

\* if sheet[f'D{row}'].value:
Included(v) == Truthy(v)

\* for row in range(from, to): if sheet[f'D{row}'].value: append(...)
RECURSIVE SectionRows(_, _, _, _)
SectionRows(c, from, to, cols) ==
    IF from >= to THEN <<>>
    ELSE (IF Included(CellValue(c, 4, from))
          THEN <<RowLine(c, from, cols)>> ELSE <<>>)
         \o SectionRows(c, from + 1, to, cols)

\* variant: the value is formatted whatever it is
StrOrEmptyFormatted(v) == FormatValue(v)

\* str(v) if v else ""
StrOrEmpty(v) == IF Truthy(v) THEN FormatValue(v) ELSE <<>>

\* content_lines as built by lines 305-345
ContentLines(c) ==
    <<Str_WeekEnding \o FormatValue(CellValue(c, 7, 7)),
      Str_ServiceProvider \o FormatValue(CellValue(c, 7, 11)),
      Str_Client \o FormatValue(CellValue(c, 7, 13)),
      <<>>,
      Str_ServiceStandardUpdates,
      Str_SSNHeader>>
    \o SectionRows(c, 34, 43, <<4, 10, 11>>)
    \o <<<<>>, Str_ServiceRisks, Str_RiskHeader>>
    \o SectionRows(c, 45, 48, <<4, 5, 8, 10, 11>>)
    \o <<<<>>, Str_ServiceIssues, Str_IssueHeader>>
    \o SectionRows(c, 50, 53, <<4, 5, 10, 11>>)
    \o <<<<>>, Str_PlannedActivities, StrOrEmpty(CellValue(c, 4, 57))>>
    \o <<<<>>, Str_ClientUpdates, StrOrEmpty(CellValue(c, 4, 67))>>

\* variant: closing the workbook saves the sheet as it is in memory
CloseWorkbookSaving(c, ranges) == [c EXCEPT !.merged = ranges]

\* wb.close(): the workbook is closed without saving, the file is as before
CloseWorkbook(c, ranges) == c

\* rows whose identifier cell the explored sheets may fill: the first and
\* last row of each section, and row 43 that follows the first section
FillRows == {34, 42, 43, 45, 47, 50, 52}

\* the sets of filled identifier rows: at most MaxFilled rows
IdSets == {S \in SUBSET FillRows : Cardinality(S) <= MaxFilled}

\* merged ranges the explored sheets may have: E33:I33 contains E33,
\* J34:K34 lies inside D31:S72, B42:D42 and S72:T73 lie across its border
MergeCandidates ==
    {Range(5, 33, 9, 33), Range(10, 34, 11, 34), Range(2, 42, 4, 42),
     Range(19, 72, 20, 73)}

RangesOverlap(a, b) ==
    ~(a.max_col < b.min_col \/ b.max_col < a.min_col
      \/ a.max_row < b.min_row \/ b.max_row < a.min_row)

\* the merged ranges of a sheet never overlap each other
MergeSets ==
    {S \in SUBSET MergeCandidates :
        \A a \in S, b \in S : a # b => ~RangesOverlap(a, b)}

Workbooks ==
    {ReportContent(ids, merged) : ids \in IdSets, merged \in MergeSets}
    \cup {OtherContent(kind) : kind \in FileData \ {"report"}}

\* access_token: None (the default) or the token string
Tokens == {PyNone, PyStr(<<"t">>)}

OutputNames == {Str_WeeklyXlsx, Str_TwoDots, Str_Weekly}

\* number of entries of target_paths (lines 649-659)
NumTargetPaths == 5

\* variant: a failed connection inside the upload reaches the caller
UploadOutcomeRaising(site, path, alt) ==
    IF site = ConnErr THEN "raise"
    ELSE IF site = 200 /\ (path > 0 \/ alt) THEN "true" ELSE "false"

\* upload_text_to_sharepoint: site is the answer of the site fetch, path the
\* position of the first target path whose PUT answers 200 or 201 (0 when
\* none does), alt tells whether one of the alternative approaches succeeds;
\* every exception is caught inside and gives False (lines 795-797)
UploadOutcome(site, path, alt) ==
    IF site = 200 /\ (path > 0 \/ alt) THEN "true" ELSE "false"

\* variant: the upload is called whatever the token
UploadCalledAlways(token) == TRUE

\* if access_token:
UploadCalled(token) == Truthy(token)

\* variant: the publisher returns after the upload whatever its result
ReturnsAfterUploadAlways(success) == TRUE

\* if success: ... return True
ReturnsAfterUpload(success) == success

\* writing or uploading replaces the file of that name at that place
PutFile(fs, name, where, text) ==
    {f \in fs : ~(f.name = name /\ f.where = where)}
    \cup {[name |-> name, where |-> where, text |-> text]}

\* the variables of the pipeline that the workbook processing leaves alone
pipevars == <<prog, items, cands, idx, success_count, arg_path, arg_filename,
              encoded_path, site_id, download_url, file_content, parsed_data,
              search_results, j, attempted, marked, outputs, offered,
              environ>>

\* return v from the workbook processing
WB_Return(v, events) ==
    /\ ret' = v
    /\ trace' = trace \o events
    /\ pc' = "wb_done"

\* load_workbook of process_workbook_content(_from_memory); it raises on
\* bytes that are no workbook (lines 242-272)
WB_Load ==
    /\ prog = "pwc" /\ pc = "wb_load"
    /\ IF content.kind \in {"corrupt", "empty"}
       THEN /\ WB_Return(PyBool(FALSE), <<"load_fail">>)
            /\ UNCHANGED merged_cells
       ELSE /\ merged_cells' = content.merged
            /\ trace' = Append(trace, "load_ok")
            /\ pc' = "wb_sheet"
            /\ UNCHANGED ret
    /\ UNCHANGED <<content, access_token, original_name, content_lines, files,
                   run, first>>
    /\ UNCHANGED pipevars

\* the active sheet test and the merge handling of E33 (lines 278-299)
WB_Sheet ==
    /\ prog = "pwc" /\ pc = "wb_sheet"
    /\ IF content.kind = "nosheet"
       THEN /\ WB_Return(PyBool(FALSE), <<"no_sheet">>)
            /\ UNCHANGED merged_cells
       ELSE /\ merged_cells' = NormalizeMerges(merged_cells)
            /\ trace' = Append(trace,
                               IF is_cell_merged(merged_cells, 5, 33)
                               THEN "unmerge" ELSE "no_unmerge")
            /\ pc' = "wb_extract"
            /\ UNCHANGED ret
    /\ UNCHANGED <<content, access_token, original_name, content_lines, files,
                   run, first>>
    /\ UNCHANGED pipevars

\* the content lines are built and the workbook is closed (lines 301-351)
WB_Extract ==
    /\ prog = "pwc" /\ pc = "wb_extract"
    /\ content_lines' = ContentLines(content)
    /\ content' = CloseWorkbook(content, merged_cells)
    /\ trace' = Append(trace, "extract_ok")
    /\ pc' = "wb_publish"
    /\ UNCHANGED <<ret, access_token, original_name, merged_cells, files, run,
                   first>>
    /\ UNCHANGED pipevars

\* the local save (lines 363-371): open() may fail, and write() may fail
\* after open() has created or truncated the file
WB_LocalSave(events) ==
    \E local \in {"ok", "open_fail", "write_fail"} :
        LET fname == ArtifactName(original_name) IN
        IF local = "ok"
        THEN /\ files' = PutFile(files, fname, "local",
                                 JoinLines(content_lines))
             /\ WB_Return(PyBool(TRUE), events \o <<"local_write_ok">>)
        ELSE /\ files' = IF local = "write_fail"
                         THEN PutFile(files, fname, "local", <<>>)
                         ELSE files
             /\ WB_Return(PyBool(FALSE), events \o <<"local_write_fail">>)

\* what follows the call of upload_text_to_sharepoint (lines 355-371)
WB_AfterUpload(outcome) ==
    IF outcome = "raise"
    THEN /\ WB_Return(PyBool(FALSE), <<"upload_start", "upload_raise">>)
         /\ UNCHANGED files
    ELSE LET success == outcome = "true"
             ev == <<"upload_start",
                     IF success THEN "upload_ok" ELSE "upload_fail">>
         IN  IF ReturnsAfterUpload(success)
             THEN /\ files' = IF success
                              THEN PutFile(files, ArtifactName(original_name),
                                           "remote", JoinLines(content_lines))
                              ELSE files
                  /\ WB_Return(PyBool(TRUE), ev)
             ELSE WB_LocalSave(ev)

\* upload when a token is given, local save otherwise or as fallback
\* (lines 353-371)
WB_Publish ==
    /\ prog = "pwc" /\ pc = "wb_publish"
    /\ IF UploadCalled(access_token)
       THEN \E site \in Resp :
            IF site # 200
            THEN WB_AfterUpload(UploadOutcome(site, 0, FALSE))
            ELSE \E path \in 0..NumTargetPaths :
                 IF path > 0
                 THEN WB_AfterUpload(UploadOutcome(site, path, FALSE))
                 ELSE \E alt \in BOOLEAN :
                      WB_AfterUpload(UploadOutcome(site, path, alt))
       ELSE WB_LocalSave(<<>>)
    /\ UNCHANGED <<content, access_token, original_name, merged_cells,
                   content_lines, run, first>>
    /\ UNCHANGED pipevars

\* the processing is called a second time with the same arguments on the
\* same bytes; the text of the first call is kept for comparison
WB_Again ==
    /\ prog = "pwc" /\ pc = "wb_done" /\ run = 1
    /\ run' = 2
    /\ first' = [first EXCEPT !.text = JoinLines(content_lines)]
    /\ merged_cells' = {}
    /\ content_lines' = <<>>
    /\ trace' = <<>>
    /\ ret' = NotReturned
    /\ pc' = "wb_load"
    /\ UNCHANGED <<content, access_token, original_name, files>>
    /\ UNCHANGED pipevars

-----------------------------------------------------------------------------
(* upload_text_to_sharepoint, request by request *)

\* what a request of the upload got, as the trace records it
StatusClass(status) ==
    CASE status \in {200, 201} -> "ok"
      [] status = 401 -> "401"
      [] status = 403 -> "403"
      [] status = 404 -> "404"
      [] status = ConnErr -> "raise"
      [] OTHER -> "other"

\* the answers of a PUT: those of a GET and 201 Created
PutResp == Resp \cup {201}

\* the number of PUT requests of the loop over target_paths sent so far
PathsTried == Cardinality({k \in 1..Len(trace) : trace[k] = "put"})

\* return v from upload_text_to_sharepoint
UP_Return(v, events) ==
    /\ ret' = PyBool(v)
    /\ trace' = trace \o events
    /\ pc' = "up_done"

\* check_token_permissions(access_token) (line 630): it returns False on a
\* 401 or 403 answer of the metadata request and when a request raises, True
\* otherwise; the caller drops the result
UP_Check ==
    /\ prog = "upload" /\ pc = "up_check"
    /\ \E r \in Resp :
        trace' = trace \o <<"metadata", StatusClass(r)>>
    /\ pc' = "up_site"
    /\ UNCHANGED <<ret, pipevars, wbvars>>

\* the site id fetch (lines 638-646)
UP_Site ==
    /\ prog = "upload" /\ pc = "up_site"
    /\ \E r \in Resp :
        IF r = 200
        THEN /\ trace' = trace \o <<"site", StatusClass(r)>>
             /\ pc' = "up_put"
             /\ UNCHANGED ret
        ELSE UP_Return(FALSE, <<"site", StatusClass(r)>>)
    /\ UNCHANGED <<pipevars, wbvars>>

\* variant: any answer of the server counts as a successful upload
UploadAcceptedAnswered(status) == status # ConnErr

\* upload_response.status_code in [200, 201] (lines 680, 718, 763)
UploadAccepted(status) == status \in {200, 201}

\* one iteration of the loop over target_paths (lines 661-688); a request
\* that raises is caught per path and the loop continues
UP_Put ==
    /\ prog = "upload" /\ pc = "up_put"
    /\ IF PathsTried < NumTargetPaths
       THEN \E r \in PutResp :
            IF r # ConnErr /\ UploadAccepted(r)
            THEN UP_Return(TRUE, <<"put", StatusClass(r)>>)
            ELSE /\ trace' = trace \o <<"put", StatusClass(r)>>
                 /\ UNCHANGED <<pc, ret>>
       ELSE /\ pc' = "up_drives"
            /\ UNCHANGED <<trace, ret>>
    /\ UNCHANGED <<pipevars, wbvars>>

Str_Documents == <<"D", "o", "c", "u", "m", "e", "n", "t", "s">>
Str_Archive == <<"A", "r", "c", "h", "i", "v", "e">>
Str_document == <<"d", "o", "c", "u", "m", "e", "n", "t">>
Str_shared == <<"s", "h", "a", "r", "e", "d">>

\* str.lower() on the letters used here
Lower(s) ==
    [k \in 1..Len(s) |->
        CASE s[k] = "D" -> "d" [] s[k] = "S" -> "s" [] s[k] = "A" -> "a"
          [] s[k] = "P" -> "p" [] s[k] = "U" -> "u"
          [] OTHER -> s[k]]

\* 'document' in drive_name.lower() or 'shared' in drive_name.lower()
IsDocumentLibrary(drive_name) ==
    \/ Contains(Lower(drive_name), Str_document)
    \/ Contains(Lower(drive_name), Str_shared)

\* the 'value' array of the drives response: at most MaxDrives drives
DriveLists ==
    UNION {{[k \in 1..m |-> [id |-> k, name |-> ns[k]]] :
                ns \in [1..m -> {Str_Documents, Str_Archive}]} :
           m \in 0..MaxDrives}

\* what a request of the alternative approaches got
Outcome(status) ==
    IF status = ConnErr THEN "raise"
    ELSE IF status \in {200, 201} THEN "ok" ELSE "fail"

\* the variables of the upload other than its position, result and trace
upfixed == <<prog, items, cands, idx, success_count, arg_path, arg_filename,
             encoded_path, site_id, download_url, file_content, parsed_data,
             attempted, marked, outputs, offered, environ, wbvars>>

\* Method 1 of the alternative approaches: the drives of the site (lines
\* 693-703); an exception ends the alternative approaches (lines 769-770)
UP_Drives ==
    /\ prog = "upload" /\ pc = "up_drives"
    /\ \E r \in Resp :
        IF r = ConnErr
        THEN /\ UP_Return(FALSE, <<"drives", Outcome(r)>>)
             /\ UNCHANGED <<search_results, j>>
        ELSE IF r = 200
        THEN \E drives \in DriveLists :
             /\ search_results' = drives
             /\ j' = 1
             /\ trace' = trace \o <<"drives", Outcome(r)>>
             /\ pc' = "up_drive_loop"
             /\ UNCHANGED ret
        ELSE /\ trace' = trace \o <<"drives", Outcome(r)>>
             /\ pc' = "up_folders"
             /\ UNCHANGED <<ret, search_results, j>>
    /\ UNCHANGED upfixed

\* one iteration of the loop over the drives: a PUT to the root of a drive
\* named like a document library (lines 703-722)
UP_DrivePut ==
    /\ prog = "upload" /\ pc = "up_drive_loop"
    /\ IF j > Len(search_results)
       THEN /\ pc' = "up_folders"
            /\ search_results' = <<>> /\ j' = 0
            /\ UNCHANGED <<ret, trace>>
       ELSE IF ~IsDocumentLibrary(search_results[j].name)
       THEN /\ j' = j + 1
            /\ UNCHANGED <<pc, ret, trace, search_results>>
       ELSE \E r \in PutResp :
            IF r = ConnErr
            THEN /\ UP_Return(FALSE, <<"drive_put", Outcome(r)>>)
                 /\ search_results' = <<>> /\ j' = 0
            ELSE IF UploadAccepted(r)
            THEN /\ UP_Return(TRUE, <<"drive_put", Outcome(r)>>)
                 /\ search_results' = <<>> /\ j' = 0
            ELSE /\ trace' = trace \o <<"drive_put", Outcome(r)>>
                 /\ j' = j + 1
                 /\ UNCHANGED <<pc, ret, search_results>>
    /\ UNCHANGED upfixed

\* Method 2: the three folder creation requests, each in its own
\* try/except, whatever they answer (lines 724-753)
UP_Folders ==
    /\ prog = "upload" /\ pc = "up_folders"
    /\ trace' = Append(trace, "folders")
    /\ pc' = "up_final"
    /\ UNCHANGED <<ret, search_results, j>>
    /\ UNCHANGED upfixed

\* the PUT to the created folder, then the guidance and return False
\* (lines 755-793)
UP_Final ==
    /\ prog = "upload" /\ pc = "up_final"
    /\ \E r \in PutResp :
        UP_Return(r # ConnErr /\ UploadAccepted(r),
                  <<"final_put", Outcome(r)>>)
    /\ UNCHANGED <<search_results, j>>
    /\ UNCHANGED upfixed

-----------------------------------------------------------------------------
(* process_sharepoint_files *)

\* variant: the query writes the rows back without their identifiers
ListAfterQueryRewritten(rows) ==
    [k \in DOMAIN rows |-> [rows[k] EXCEPT !.id = 0]]

\* the list after the list query: every request of
\* get_sharepoint_list_items and of the endpoint loop is a requests.get, and
\* mark_file_as_processed is commented out, so the rows stay as they are
ListAfterQuery(rows) == rows

\* variant: the list query reports the rows an earlier run was given as
\* processed
ListItemsUnseen(reachable) ==
    IF reachable
    THEN [k \in 1..Len(items) |->
            IF k \in offered
            THEN [items[k] EXCEPT !.fields =
                     [c \in DOMAIN items[k].fields \cup ProcessedColumns |->
                         IF c \in ProcessedColumns THEN PyBool(TRUE)
                         ELSE items[k].fields[c]]]
            ELSE items[k]]
    ELSE <<>>

\* the rows the list query returns; [] when the list cannot be read
ListItems(reachable) == IF reachable THEN items ELSE <<>>

\* variant: the orchestrator reports success whatever it counted
FinishTrue(v) ==
    /\ ret' = PyBool(TRUE)
    /\ pc' = "done"

\* return v from the orchestrator
Finish(v) ==
    /\ ret' = v
    /\ pc' = "done"

\* get_sharepoint_token (lines 465-468)
PSF_Auth ==
    /\ prog = "psf" /\ pc = "start"
    /\ \E token \in BOOLEAN :
        IF token THEN pc' = "scan" /\ UNCHANGED ret
        ELSE Finish(PyBool(FALSE))
    /\ UNCHANGED <<prog, items, cands, idx, success_count, arg_path,
                   arg_filename, encoded_path, site_id, download_url,
                   file_content, parsed_data, search_results, j, trace,
                   attempted, marked, outputs>>
    /\ UNCHANGED <<wbvars, offered, environ>>

\* list query and candidate filter (lines 470-517)
PSF_Scan ==
    /\ prog = "psf" /\ pc = "scan"
    /\ \E reachable \in BOOLEAN :
        LET list_items == ListItems(reachable) IN
        IF list_items = <<>>
        THEN /\ Finish(PyBool(FALSE))
             /\ trace' = <<"list_empty">>
             /\ UNCHANGED <<cands, idx>>
        ELSE IF excel_files(list_items) = <<>>
        THEN /\ Finish(PyBool(FALSE))
             /\ cands' = <<>>
             /\ trace' = <<"list_ok">>
             /\ UNCHANGED idx
        ELSE /\ cands' = excel_files(list_items)
             /\ idx' = 1
             /\ pc' = "item"
             /\ trace' = <<"list_ok">>
             /\ UNCHANGED ret
    /\ items' = ListAfterQuery(items)
    /\ UNCHANGED <<prog, success_count, arg_path, arg_filename,
                   encoded_path, site_id, download_url, file_content,
                   parsed_data, search_results, j, attempted, marked,
                   outputs>>
    /\ UNCHANGED <<wbvars, offered, environ>>

\* head of the per-item loop: call the resolver for the next candidate
\* (lines 521-526); raised tells whether the body raises before the call
PSF_Item ==
    /\ prog = "psf" /\ pc = "item" /\ idx <= Len(cands)
    /\ attempted' = attempted \cup {idx}
    /\ \E raised \in BOOLEAN :
        IF raised
        THEN /\ trace' = <<"exception">>
             /\ pc' = "next"
             /\ UNCHANGED <<idx, arg_path, arg_filename, encoded_path,
                            site_id, file_content>>
        ELSE /\ arg_path' = cands[idx].path
             /\ arg_filename' = cands[idx].filename
             /\ encoded_path' = <<>>
             /\ site_id' = FALSE
             /\ file_content' = NoContent
             /\ trace' = <<"resolve_start">>
             /\ pc' = "dl_site"
             /\ UNCHANGED idx
    /\ UNCHANGED <<prog, items, cands, success_count, ret, download_url,
                   parsed_data, search_results, j, marked, outputs>>
    /\ UNCHANGED <<wbvars, offered, environ>>

\* `if not file_content: continue` (lines 527-529)
PSF_AfterDownload ==
    /\ prog = "psf" /\ pc = "dl_ret"
    /\ IF NoFileContent(file_content)
       THEN /\ idx' = idx
            /\ trace' = Append(trace, "resolve_fail")
            /\ pc' = "next"
       ELSE /\ trace' = Append(trace, "resolve_ok")
            /\ pc' = "process"
            /\ UNCHANGED idx
    /\ UNCHANGED <<prog, items, cands, success_count, ret, arg_path,
                   arg_filename, encoded_path, site_id, download_url,
                   file_content, parsed_data, search_results, j, attempted,
                   marked, outputs>>
    /\ UNCHANGED <<wbvars, offered, environ>>

\* process_workbook_content_from_memory and the counting (lines 531-543)
PSF_Process ==
    /\ prog = "psf" /\ pc = "process"
    /\ \E upload_ok \in BOOLEAN, write_ok \in BOOLEAN :
        LET r == ProcessWorkbookContent(idx, file_content.data,
                                        cands[idx].filename, TRUE, upload_ok,
                                        write_ok)
        IN  /\ outputs' = outputs \cup r.out
            /\ IF r.ok
               THEN /\ success_count' = success_count + 1
                    /\ trace' = trace \o r.ev \o <<"counted">>
                    /\ idx' = idx
               ELSE /\ trace' = trace \o r.ev
                    /\ idx' = idx
                    /\ UNCHANGED success_count
    /\ pc' = "next"
    /\ UNCHANGED <<prog, items, cands, ret, arg_path, arg_filename,
                   encoded_path, site_id, download_url, file_content,
                   parsed_data, search_results, j, attempted, marked>>
    /\ UNCHANGED <<wbvars, offered, environ>>

\* variant: a failed item ends the loop
NextPositionAbort(position, failed) ==
    IF failed THEN Len(cands) + 1 ELSE position + 1

\* the position the for loop takes after the item at position ended
NextPosition(position, failed) == position + 1

\* the item being handled was not counted as processed
ItemFailed == \A k \in 1..Len(trace) : trace[k] # "counted"

\* the for statement takes the next candidate, after a normal end of the
\* body, a continue or a caught exception alike; the locals of the finished
\* iteration are dead and are cleared
LoopAdvance ==
    /\ pc = "next"
    /\ idx' = NextPosition(idx, ItemFailed)
    /\ pc' = "item"
    /\ arg_path' = <<>>
    /\ arg_filename' = <<>>
    /\ encoded_path' = <<>>
    /\ site_id' = FALSE
    /\ download_url' = NoUrl
    /\ file_content' = NoContent
    /\ parsed_data' = "none"
    /\ search_results' = <<>>
    /\ j' = 0
    /\ trace' = <<>>
    /\ outputs' = {}
    /\ UNCHANGED <<prog, items, cands, success_count, ret, attempted, marked>>
    /\ UNCHANGED <<wbvars, offered, environ>>

\* end of the loop: return success_count > 0 (lines 545-546)
PSF_Return ==
    /\ prog = "psf" /\ pc = "item" /\ idx > Len(cands)
    /\ Finish(PyBool(success_count > 0))
    /\ UNCHANGED <<prog, items, cands, idx, success_count, arg_path,
                   arg_filename, encoded_path, site_id, download_url,
                   file_content, parsed_data, search_results, j, trace,
                   attempted, marked, outputs>>
    /\ UNCHANGED <<wbvars, offered, environ>>

-----------------------------------------------------------------------------
(* process_sharepoint_list_files *)

\* the value of detail_data.get('@microsoft.graph.downloadUrl')
UrlOrNone(present, via, id, name) ==
    IF present THEN Url(via, id, name) ELSE NoUrl

\* bool(response) of requests: status below 400
ResponseTruthy(status) == status # ConnErr /\ status < 400

\* s.split(): the words of s
RECURSIVE SplitWords(_)
SplitWords(s) ==
    LET t == LStrip(s) IN
    IF t = <<>> THEN <<>>
    ELSE LET RECURSIVE WordLen(_)
             WordLen(k) == IF k < Len(t) /\ t[k + 1] # " "
                           THEN WordLen(k + 1) ELSE k
             n == WordLen(0)
         IN  <<SubSeq(t, 1, n)>> \o SplitWords(DropPrefix(t, n))

\* words[-3:]
LastThree(words) ==
    SubSeq(words, IF Len(words) > 3 THEN Len(words) - 2 ELSE 1, Len(words))

\* the partial match of Method 1 (line 1130)
PartialMatch(item_name, filename) ==
    /\ Contains(item_name, Str_CSFlexWeekly)
    /\ LET words == LastThree(SplitWords(filename))
       IN  \E k \in 1..Len(words) : Contains(item_name, words[k])

\* the name similarity test of Method 3 (line 1189)
SimilarName(item_name, filename) ==
    \/ Contains(item_name, TakePrefix(filename, 20))
    \/ Contains(filename, TakePrefix(item_name, 20))

\* re.sub(r'[<>:"/\\|?*]', '_', filename)
RECURSIVE SafeName(_)
SafeName(s) ==
    IF s = <<>> THEN <<>>
    ELSE (IF Head(s) \in {"<", ">", ":", "\"", "/", "\\", "|", "?", "*"}
          THEN <<"_">> ELSE <<Head(s)>>) \o SafeName(Tail(s))

\* filename.replace(' ', '_').replace('/', '_')
RECURSIVE UnderscoreName(_)
UnderscoreName(s) ==
    IF s = <<>> THEN <<>>
    ELSE (IF Head(s) \in {" ", "/"} THEN <<"_">> ELSE <<Head(s)>>)
         \o UnderscoreName(Tail(s))

TempFilename(filename) == Str_temp \o SafeName(filename)

SummaryFilename(filename) ==
    Str_ReportSummary \o UnderscoreName(filename) \o Str_txt

\* the encoded server relative URL built at the head of the loop body
\* (lines 1048-1067)
ServerRelativeUrl(path, filename) ==
    LET clean_path ==
            IF StartsWith(path, Str_SharedDocuments)
            THEN DropPrefix(path, Len(Str_SharedDocuments))
            ELSE IF StartsWith(path, Str_SlashSharedDocuments)
            THEN DropPrefix(path, Len(Str_SlashSharedDocuments))
            ELSE path
        server_relative_url ==
            IF clean_path # <<>>
            THEN <<"/">> \o clean_path \o <<"/">> \o filename
            ELSE <<"/">> \o filename
    IN  Quote(ReplaceDoubleSlash(server_relative_url))

\* the candidates the loop iterates over: report_files[:max_files]
LoopList == IF prog = "pslf" THEN Slice(cands, max_files) ELSE cands

\* the body of the per-item loop from its head to its end (lines 520-543 and
\* 1038-1389): the candidate is attempted and the body ends normally, by
\* continue or by a caught exception, counted as processed or not
LoopBody ==
    /\ pc = "item" /\ idx <= Len(LoopList)
    /\ attempted' = attempted \cup {idx}
    /\ \E counted \in BOOLEAN :
        /\ success_count' = IF counted THEN success_count + 1
                            ELSE success_count
        /\ trace' = IF counted THEN <<"counted">> ELSE <<"resolve_fail">>
    /\ pc' = "next"
    /\ UNCHANGED <<prog, items, cands, idx, ret, arg_path, arg_filename,
                   encoded_path, site_id, download_url, file_content,
                   parsed_data, search_results, j, marked, outputs>>
    /\ UNCHANGED <<wbvars, offered, environ>>

\* `continue` / a caught exception: the loop moves to the next candidate
PSLF_Continue(events) ==
    /\ idx' = idx
    /\ trace' = trace \o events
    /\ pc' = "next"

\* MSAL authentication (lines 897-923)
PSLF_Auth ==
    /\ prog = "pslf" /\ pc = "start"
    /\ \E token \in BOOLEAN :
        IF token THEN pc' = "scan" /\ UNCHANGED ret
        ELSE Finish(PyBool(FALSE))
    /\ UNCHANGED <<prog, items, cands, idx, success_count, arg_path,
                   arg_filename, encoded_path, site_id, download_url,
                   file_content, parsed_data, search_results, j, trace,
                   attempted, marked, outputs>>
    /\ UNCHANGED <<wbvars, offered, environ>>

\* list query over the three endpoints and candidate filter (lines 935-1030)
PSLF_Scan ==
    /\ prog = "pslf" /\ pc = "scan"
    /\ \E r1 \in Resp, r2 \in Resp, r3 \in Resp :
        LET list_items == ListItems(200 \in {r1, r2, r3}) IN
        IF list_items = <<>>
        THEN /\ Finish(PyBool(FALSE))
             /\ trace' = <<"list_empty">>
             /\ UNCHANGED <<cands, idx>>
        ELSE IF report_files(list_items) = <<>>
        THEN /\ Finish(PyBool(FALSE))
             /\ cands' = <<>>
             /\ trace' = <<"list_ok">>
             /\ UNCHANGED idx
        ELSE /\ cands' = report_files(list_items)
             /\ idx' = 1
             /\ pc' = "item"
             /\ trace' = <<"list_ok">>
             /\ UNCHANGED ret
    /\ items' = ListAfterQuery(items)
    /\ UNCHANGED <<prog, success_count, arg_path, arg_filename,
                   encoded_path, site_id, download_url, file_content,
                   parsed_data, search_results, j, attempted, marked,
                   outputs>>
    /\ UNCHANGED <<wbvars, offered, environ>>

\* head of the per-item loop (lines 1037-1088)
PSLF_Item ==
    /\ prog = "pslf" /\ pc = "item" /\ idx <= Len(LoopList)
    /\ attempted' = attempted \cup {idx}
    /\ \E raised \in BOOLEAN :
        IF raised
        THEN /\ trace' = <<"exception">>
             /\ pc' = "next"
             /\ UNCHANGED <<idx, arg_path, arg_filename, encoded_path,
                            site_id, file_content, download_url, parsed_data>>
        ELSE /\ arg_path' = cands[idx].path
             /\ arg_filename' = cands[idx].filename
             /\ site_id' = FALSE
             /\ file_content' = NoContent
             /\ download_url' = NoUrl
             /\ parsed_data' = "none"
             /\ encoded_path' = ServerRelativeUrl(cands[idx].path,
                                                  cands[idx].filename)
             /\ trace' = <<"resolve_start">>
             /\ pc' = "l_site"
             /\ UNCHANGED idx
    /\ UNCHANGED <<prog, items, cands, success_count, ret, search_results, j,
                   marked, outputs>>
    /\ UNCHANGED <<wbvars, offered, environ>>

\* Method 1: site id fetch (lines 1090-1099)
PSLF_Site ==
    /\ prog = "pslf" /\ pc = "l_site"
    /\ \E r \in Resp :
        IF r = ConnErr
        THEN PSLF_Continue(<<"site_fail", "exception">>) /\ UNCHANGED site_id
        ELSE IF r = 200
        THEN /\ site_id' = TRUE
             /\ trace' = Append(trace, "site_ok")
             /\ pc' = "l_search"
             /\ UNCHANGED idx
        ELSE /\ trace' = Append(trace, "site_fail")
             /\ pc' = "l_fetch"
             /\ UNCHANGED <<idx, site_id>>
    /\ UNCHANGED <<prog, items, cands, success_count, ret, arg_path,
                   arg_filename, encoded_path, download_url, file_content,
                   parsed_data, search_results, j, attempted, marked,
                   outputs>>
    /\ UNCHANGED <<wbvars, offered, environ>>

\* Method 1: drive search for the filename (lines 1101-1109, 1142-1143)
PSLF_Search ==
    /\ prog = "pslf" /\ pc = "l_search"
    /\ \E r \in Resp :
        IF r = ConnErr
        THEN /\ PSLF_Continue(<<"exact_search_fail", "exception">>)
             /\ UNCHANGED <<search_results, j>>
        ELSE IF r = 200
        THEN \E res \in ResultLists(arg_filename) :
             /\ search_results' = res
             /\ j' = 1
             /\ trace' = Append(trace, "exact_search_ok")
             /\ pc' = "l_exact"
             /\ UNCHANGED idx
        ELSE /\ trace' = Append(trace, "exact_search_fail")
             /\ pc' = "l_direct"
             /\ UNCHANGED <<idx, search_results, j>>
    /\ UNCHANGED <<prog, items, cands, success_count, ret, arg_path,
                   arg_filename, encoded_path, site_id, download_url,
                   file_content, parsed_data, attempted, marked, outputs>>
    /\ UNCHANGED <<wbvars, offered, environ>>

\* Method 1: one iteration of the exact-match loop (lines 1111-1124) and the
\* test that follows the loop (line 1127)
PSLF_ExactItem ==
    /\ prog = "pslf" /\ pc = "l_exact"
    /\ IF j > Len(search_results)
       THEN /\ IF search_results # <<>>
               THEN pc' = "l_partial" /\ j' = 1 /\ UNCHANGED search_results
               ELSE pc' = "l_direct" /\ j' = 0 /\ UNCHANGED search_results
            /\ UNCHANGED <<idx, trace, download_url>>
       ELSE LET item == search_results[j] IN
            IF ~ExactName(item.name, arg_filename)
            THEN /\ j' = j + 1
                 /\ UNCHANGED <<pc, idx, trace, download_url, search_results>>
            ELSE \E r \in Resp :
            IF r = ConnErr
            THEN /\ PSLF_Continue(<<"exact_detail_fail", "exception">>)
                 /\ UNCHANGED <<j, download_url, search_results>>
            ELSE IF r # 200
            THEN /\ j' = j + 1
                 /\ trace' = Append(trace, "exact_detail_fail")
                 /\ UNCHANGED <<pc, idx, download_url, search_results>>
            ELSE \E url \in BOOLEAN :
                 /\ download_url' = UrlOrNone(url, "exact", item.id, item.name)
                 /\ trace' = trace \o <<"exact_detail_ok">>
                             \o (IF url THEN <<>> ELSE <<"exact_no_url">>)
                 /\ IF url
                    THEN pc' = "l_direct" /\ j' = 0 /\ search_results' = <<>>
                    ELSE pc' = "l_partial" /\ j' = 1 /\ UNCHANGED search_results
                 /\ UNCHANGED idx
    /\ UNCHANGED <<prog, items, cands, success_count, ret, arg_path,
                   arg_filename, encoded_path, site_id, file_content,
                   parsed_data, attempted, marked, outputs>>
    /\ UNCHANGED <<wbvars, offered, environ>>

\* Method 1: one iteration of the partial-match loop (lines 1126-1141); the
\* results are not read again after the loop
PSLF_PartialItem ==
    /\ prog = "pslf" /\ pc = "l_partial"
    /\ IF j > Len(search_results)
       THEN /\ pc' = "l_direct"
            /\ j' = 0 /\ search_results' = <<>>
            /\ UNCHANGED <<idx, trace, download_url>>
       ELSE LET item == search_results[j] IN
            IF ~PartialMatch(item.name, arg_filename)
            THEN /\ j' = j + 1
                 /\ UNCHANGED <<pc, idx, trace, download_url, search_results>>
            ELSE \E r \in Resp :
            IF r = ConnErr
            THEN /\ PSLF_Continue(<<"fuzzy_detail_fail", "exception">>)
                 /\ UNCHANGED <<j, download_url, search_results>>
            ELSE IF r # 200
            THEN /\ j' = j + 1
                 /\ trace' = Append(trace, "fuzzy_detail_fail")
                 /\ UNCHANGED <<pc, idx, download_url, search_results>>
            ELSE \E url \in BOOLEAN :
                 /\ download_url' = UrlOrNone(url, "fuzzy", item.id, item.name)
                 /\ trace' = trace \o <<"fuzzy_detail_ok">>
                             \o (IF url THEN <<>> ELSE <<"fuzzy_no_url">>)
                 /\ pc' = "l_direct"
                 /\ j' = 0 /\ search_results' = <<>>
                 /\ UNCHANGED idx
    /\ UNCHANGED <<prog, items, cands, success_count, ret, arg_path,
                   arg_filename, encoded_path, site_id, file_content,
                   parsed_data, attempted, marked, outputs>>
    /\ UNCHANGED <<wbvars, offered, environ>>

\* Method 2: direct access by path, two URL forms (lines 1145-1170)
PSLF_Direct ==
    /\ prog = "pslf" /\ pc = "l_direct"
    /\ IF ~(download_url = NoUrl /\ site_id)
       THEN /\ pc' = "l_fuzzy"
            /\ UNCHANGED <<idx, trace, download_url>>
       ELSE \E r1 \in Resp :
            IF r1 = ConnErr
            THEN /\ PSLF_Continue(<<"direct_meta_fail", "exception">>)
                 /\ UNCHANGED download_url
            ELSE IF r1 = 200
            THEN \E u1 \in BOOLEAN :
                 /\ download_url' = UrlOrNone(u1, "direct", 0, arg_filename)
                 /\ trace' = trace \o <<"direct_meta_ok">>
                             \o (IF u1 THEN <<>> ELSE <<"direct_no_url">>)
                 /\ pc' = "l_fuzzy"
                 /\ UNCHANGED idx
            ELSE \E r2 \in Resp :
            IF r2 = ConnErr
            THEN /\ PSLF_Continue(<<"direct_meta_fail", "direct_meta_fail",
                                    "exception">>)
                 /\ UNCHANGED download_url
            ELSE IF r2 = 200
            THEN \E u2 \in BOOLEAN :
                 /\ download_url' = UrlOrNone(u2, "direct", 0, arg_filename)
                 /\ trace' = trace \o <<"direct_meta_fail", "direct_meta_ok">>
                             \o (IF u2 THEN <<>> ELSE <<"direct_no_url">>)
                 /\ pc' = "l_fuzzy"
                 /\ UNCHANGED idx
            ELSE /\ trace' = trace \o <<"direct_meta_fail", "direct_meta_fail">>
                 /\ pc' = "l_fuzzy"
                 /\ UNCHANGED <<idx, download_url>>
    /\ UNCHANGED <<prog, items, cands, success_count, ret, arg_path,
                   arg_filename, encoded_path, site_id, file_content,
                   parsed_data, search_results, j, attempted, marked,
                   outputs>>
    /\ UNCHANGED <<wbvars, offered, environ>>

\* Method 3: search for the fixed key terms (lines 1172-1183, 1201-1202)
PSLF_Search3 ==
    /\ prog = "pslf" /\ pc = "l_fuzzy"
    /\ IF ~(download_url = NoUrl /\ site_id)
       THEN /\ pc' = "l_fetch"
            /\ UNCHANGED <<idx, trace, search_results, j>>
       ELSE \E r \in Resp :
            IF r = ConnErr
            THEN /\ PSLF_Continue(<<"fuzzy_search_fail", "exception">>)
                 /\ UNCHANGED <<search_results, j>>
            ELSE IF r = 200
            THEN \E res \in ResultLists(arg_filename) :
                 /\ search_results' = res
                 /\ j' = 1
                 /\ trace' = Append(trace, "fuzzy_search_ok")
                 /\ pc' = "l_fuzzy_loop"
                 /\ UNCHANGED idx
            ELSE /\ trace' = Append(trace, "fuzzy_search_fail")
                 /\ pc' = "l_fetch"
                 /\ UNCHANGED <<idx, search_results, j>>
    /\ UNCHANGED <<prog, items, cands, success_count, ret, arg_path,
                   arg_filename, encoded_path, site_id, download_url,
                   file_content, parsed_data, attempted, marked, outputs>>
    /\ UNCHANGED <<wbvars, offered, environ>>

\* Method 3: one iteration of the loop over the results (lines 1185-1200)
PSLF_FuzzyItem ==
    /\ prog = "pslf" /\ pc = "l_fuzzy_loop"
    /\ IF j > Len(search_results)
       THEN /\ pc' = "l_fetch"
            /\ j' = 0 /\ search_results' = <<>>
            /\ UNCHANGED <<idx, trace, download_url>>
       ELSE LET item == search_results[j] IN
            IF ~SimilarName(item.name, arg_filename)
            THEN /\ j' = j + 1
                 /\ UNCHANGED <<pc, idx, trace, download_url, search_results>>
            ELSE \E r \in Resp :
            IF r = ConnErr
            THEN /\ PSLF_Continue(<<"fuzzy_detail_fail", "exception">>)
                 /\ UNCHANGED <<j, download_url, search_results>>
            ELSE IF r # 200
            THEN /\ j' = j + 1
                 /\ trace' = Append(trace, "fuzzy_detail_fail")
                 /\ UNCHANGED <<pc, idx, download_url, search_results>>
            ELSE \E url \in BOOLEAN :
                 /\ download_url' = UrlOrNone(url, "fuzzy", item.id, item.name)
                 /\ trace' = trace \o <<"fuzzy_detail_ok">>
                             \o (IF url THEN <<>> ELSE <<"fuzzy_no_url">>)
                 /\ pc' = "l_fetch"
                 /\ j' = 0 /\ search_results' = <<>>
                 /\ UNCHANGED idx
    /\ UNCHANGED <<prog, items, cands, success_count, ret, arg_path,
                   arg_filename, encoded_path, site_id, file_content,
                   parsed_data, attempted, marked, outputs>>
    /\ UNCHANGED <<wbvars, offered, environ>>

\* no download URL: metadata-only result, counted as success; otherwise the
\* content fetch and the temporary file (lines 1204-1246, 1316-1323)
PSLF_Fetch ==
    /\ prog = "pslf" /\ pc = "l_fetch"
    /\ IF download_url = NoUrl
       THEN /\ parsed_data' = "metadata_only"
            /\ success_count' = success_count + 1
            /\ trace' = trace \o <<"resolve_fail", "counted">>
            /\ pc' = "l_summary"
            /\ UNCHANGED <<idx, file_content>>
       ELSE \E r \in Resp :
            /\ UNCHANGED <<success_count, parsed_data>>
            /\ IF r = ConnErr
               THEN /\ PSLF_Continue(<<"content_fail", "exception">>)
                    /\ UNCHANGED file_content
               ELSE IF r = 200
               THEN \E temp_ok \in BOOLEAN :
                    IF temp_ok
                    THEN \E d \in FileData :
                         /\ file_content' = Content(download_url.via,
                                                    download_url.id,
                                                    download_url.name, d)
                         /\ trace' = trace \o <<"content_ok", "resolve_ok">>
                         /\ pc' = "l_process"
                         /\ UNCHANGED idx
                    ELSE /\ PSLF_Continue(<<"content_ok", "exception">>)
                         /\ UNCHANGED file_content
               ELSE IF ResponseTruthy(r)
               THEN /\ PSLF_Continue(<<"content_fail">>)
                    /\ UNCHANGED file_content
               ELSE /\ trace' = trace \o <<"content_fail">>
                    /\ pc' = "l_summary"
                    /\ UNCHANGED <<idx, file_content>>
    /\ UNCHANGED <<prog, items, cands, ret, arg_path, arg_filename,
                   encoded_path, site_id, download_url, search_results, j,
                   attempted, marked, outputs>>
    /\ UNCHANGED <<wbvars, offered, environ>>

\* process_workbook on the temporary file; every outcome is counted
\* (lines 1248-1314)
PSLF_Process ==
    /\ prog = "pslf" /\ pc = "l_process"
    /\ \E write_ok \in BOOLEAN :
        LET r == ProcessWorkbookContent(idx, file_content.data,
                                        TempFilename(arg_filename), FALSE,
                                        FALSE, write_ok)
        IN  /\ outputs' = outputs \cup r.out
            /\ parsed_data' = IF r.ok THEN "processed" ELSE "returned_none"
            /\ trace' = trace \o r.ev \o <<"counted">>
    /\ success_count' = success_count + 1
    /\ pc' = "l_summary"
    /\ UNCHANGED <<prog, items, cands, idx, ret, arg_path, arg_filename,
                   encoded_path, site_id, download_url, file_content,
                   search_results, j, attempted, marked>>
    /\ UNCHANGED <<wbvars, offered, environ>>

\* the summary report written for the item (lines 1325-1385)
PSLF_Summary ==
    /\ prog = "pslf" /\ pc = "l_summary"
    /\ \E write_ok \in BOOLEAN :
        IF write_ok
        THEN /\ outputs' = outputs \cup
                    {Output(idx, SummaryFilename(arg_filename), "local",
                            "summary")}
             /\ trace' = Append(trace, "summary_write_ok")
        ELSE /\ trace' = Append(trace, "summary_write_fail")
             /\ UNCHANGED outputs
    /\ idx' = idx
    /\ pc' = "next"
    /\ UNCHANGED <<prog, items, cands, success_count, ret, arg_path,
                   arg_filename, encoded_path, site_id, download_url,
                   file_content, parsed_data, search_results, j, attempted,
                   marked>>
    /\ UNCHANGED <<wbvars, offered, environ>>

\* end of the loop: return success_count > 0 (lines 1393-1397)
PSLF_Return ==
    /\ prog = "pslf" /\ pc = "item" /\ idx > Len(LoopList)
    /\ Finish(PyBool(success_count > 0))
    /\ UNCHANGED <<prog, items, cands, idx, success_count, arg_path,
                   arg_filename, encoded_path, site_id, download_url,
                   file_content, parsed_data, search_results, j, trace,
                   attempted, marked, outputs>>
    /\ UNCHANGED <<wbvars, offered, environ>>

-----------------------------------------------------------------------------
(* get_sharepoint_list_items (src/search_sharepoint.py) *)

Str_ListName ==
    <<"S", "e", "r", "v", "i", "c", "e", " ", "P", "r", "o", "v", "i", "d",
      "e", "r", " ", "U", "p", "l", "o", "a", "d", "s">>

\* the list returned: its rows are not looked at here, only their number
PyList(n) == [t |-> "list", n |-> n, s |-> <<>>]

\* variant: every answered site request is taken for a found site
SiteFoundAnswered(status) == status # ConnErr

\* site_response.status_code == 200 (lines 64, 71, 91, 94)
SiteFound(status) == status = 200

\* list_name.lower() in lst.get('displayName', '').lower() (line 127)
ListMatches(list_name, display_name) ==
    Contains(Lower(display_name), Lower(list_name))

\* the 'value' array of the lists response: at most MaxResults lists
SiteLists ==
    UNION {{[k \in 1..m |-> [id |-> k, name |-> ns[k]]] :
                ns \in [1..m -> {Str_ListName, Lower(Str_ListName),
                                 Str_Documents}]} :
           m \in 0..MaxResults}

\* the variables that get_sharepoint_list_items leaves alone
glfixed == <<prog, items, cands, idx, success_count, arg_path, arg_filename,
             encoded_path, download_url, file_content, parsed_data,
             attempted, marked, outputs, offered, environ, wbvars>>

\* return rows from get_sharepoint_list_items; `except Exception` returns
\* [] (lines 141-143)
GL_Return(n, events) ==
    /\ ret' = PyList(n)
    /\ trace' = trace \o events
    /\ pc' = "gl_done"

\* a site request answered 200: site_id = site_response.json()['id'], which
\* raises when the answer has no id (lines 91-95)
GL_TakeId(kind, status, has_id) ==
    IF has_id
    THEN /\ site_id' = TRUE
         /\ trace' = trace \o <<kind, StatusClass(status)>>
         /\ pc' = "gl_list"
         /\ UNCHANGED ret
    ELSE /\ GL_Return(0, <<kind, StatusClass(status), "json", "raise">>)
         /\ UNCHANGED site_id

\* Method 1: the direct site URL (lines 59-64)
GL_Site ==
    /\ prog = "glist" /\ pc = "gl_site"
    /\ \E r \in Resp :
        IF r = ConnErr
        THEN GL_Return(0, <<"site", "raise">>) /\ UNCHANGED site_id
        ELSE IF SiteFound(r)
        THEN \E has_id \in BOOLEAN : GL_TakeId("site", r, has_id)
        ELSE /\ trace' = trace \o <<"site", StatusClass(r)>>
             /\ pc' = "gl_root"
             /\ UNCHANGED <<ret, site_id>>
    /\ UNCHANGED <<search_results, j>>
    /\ UNCHANGED glfixed

\* Method 2: the root site (lines 66-71)
GL_Root ==
    /\ prog = "glist" /\ pc = "gl_root"
    /\ \E r \in Resp :
        IF r = ConnErr
        THEN GL_Return(0, <<"root", "raise">>) /\ UNCHANGED site_id
        ELSE IF SiteFound(r)
        THEN \E has_id \in BOOLEAN : GL_TakeId("root", r, has_id)
        ELSE /\ trace' = trace \o <<"root", StatusClass(r)>>
             /\ pc' = "gl_search"
             /\ UNCHANGED <<ret, site_id>>
    /\ UNCHANGED <<search_results, j>>
    /\ UNCHANGED glfixed

\* Method 3: the site search (lines 73-89)
GL_SiteSearch ==
    /\ prog = "glist" /\ pc = "gl_search"
    /\ \E r \in Resp :
        IF r = ConnErr
        THEN GL_Return(0, <<"search", "raise">>) /\ UNCHANGED site_id
        ELSE IF r = 200
        THEN \E sites \in BOOLEAN :
             IF sites
             THEN \E has_id \in BOOLEAN : GL_TakeId("search", r, has_id)
             ELSE GL_Return(0, <<"search", "empty">>) /\ UNCHANGED site_id
        ELSE GL_Return(0, <<"search", StatusClass(r)>>) /\ UNCHANGED site_id
    /\ UNCHANGED <<search_results, j>>
    /\ UNCHANGED glfixed

\* the items of the list by its display name (lines 97-113)
GL_List ==
    /\ prog = "glist" /\ pc = "gl_list"
    /\ \E r \in Resp :
        IF r = ConnErr
        THEN GL_Return(0, <<"list", "raise">>)
        ELSE IF r = 200
        THEN \E n \in 0..MaxItems : GL_Return(n, <<"list", "ok">>)
        ELSE /\ trace' = trace \o <<"list", StatusClass(r)>>
             /\ pc' = "gl_lists"
             /\ UNCHANGED ret
    /\ UNCHANGED <<site_id, search_results, j>>
    /\ UNCHANGED glfixed

\* the lists of the site (lines 118-125, 135-139)
GL_Lists ==
    /\ prog = "glist" /\ pc = "gl_lists"
    /\ \E r \in Resp :
        IF r = ConnErr
        THEN /\ GL_Return(0, <<"lists", "raise">>)
             /\ UNCHANGED <<search_results, j>>
        ELSE IF r = 200
        THEN \E lists \in SiteLists :
             /\ search_results' = lists
             /\ j' = 1
             /\ trace' = trace \o <<"lists", "ok">>
             /\ pc' = "gl_match"
             /\ UNCHANGED ret
        ELSE /\ GL_Return(0, <<"lists", StatusClass(r)>>)
             /\ UNCHANGED <<search_results, j>>
    /\ UNCHANGED site_id
    /\ UNCHANGED glfixed

\* one iteration of the loop over the lists: the items of a list whose
\* display name contains list_name (lines 126-133, 139)
GL_Match ==
    /\ prog = "glist" /\ pc = "gl_match"
    /\ IF j > Len(search_results)
       THEN /\ GL_Return(0, <<>>)
            /\ search_results' = <<>> /\ j' = 0
       ELSE IF ~ListMatches(arg_filename, search_results[j].name)
       THEN /\ j' = j + 1
            /\ UNCHANGED <<pc, ret, trace, search_results>>
       ELSE \E r \in Resp :
            IF r = ConnErr
            THEN /\ GL_Return(0, <<"list_by_id", "raise">>)
                 /\ search_results' = <<>> /\ j' = 0
            ELSE IF r = 200
            THEN \E n \in 0..MaxItems :
                 /\ GL_Return(n, <<"list_by_id", "ok">>)
                 /\ search_results' = <<>> /\ j' = 0
            ELSE /\ trace' = trace \o <<"list_by_id", StatusClass(r)>>
                 /\ j' = j + 1
                 /\ UNCHANGED <<pc, ret, search_results>>
    /\ UNCHANGED site_id
    /\ UNCHANGED glfixed

-----------------------------------------------------------------------------
(* get_secret (src/keyvault.py) *)

Str_EnvName == <<"N", "A", "M", "E">>
Str_e == <<"e">>
Str_k == <<"k">>
Str_d == <<"d">>

\* the call ended with `raise KeyError(...)`
KeyErrorRaised == [t |-> "raise", n |-> 0, s |-> <<"K", "e", "y">>]

\* what client.get_secret(secret_name).value can give: a value, '', None,
\* or an exception (ReadFailed)
ReadFailed == [t |-> "raise", n |-> 0, s |-> <<>>]
ReadOutcomes == {PyStr(Str_k), PyStr(<<>>), PyNone, ReadFailed}

\* variant: an environment variable that is set wins, even when it is empty
EnvWinsIfSet(val) == val # PyNone

\* `if val:` (line 73)
EnvWins(val) == Truthy(val)

\* result if result is not None else ""
SecretValue(result) == IF result = PyNone THEN PyStr(<<>>) ELSE result

\* every variable that get_secret leaves alone
secretfixed == <<prog, items, cands, idx, success_count, arg_path,
                 arg_filename, encoded_path, site_id, download_url,
                 file_content, parsed_data, search_results, j, attempted,
                 marked, outputs, offered, environ, wbvars>>

\* os.environ.get(env_name) (lines 72-74)
GS_Env ==
    /\ prog = "get_secret" /\ pc = "gs_env"
    /\ IF EnvWins(environ.env)
       THEN /\ ret' = environ.env
            /\ pc' = "gs_done"
       ELSE /\ pc' = "gs_client"
            /\ UNCHANGED ret
    /\ trace' = Append(trace, <<"env", environ.env>>)
    /\ UNCHANGED secretfixed

\* get_kv_client (lines 49-62, 77-78): no client without KEY_VAULT_NAME or
\* without a credential
GS_Client ==
    /\ prog = "get_secret" /\ pc = "gs_client"
    /\ \E credential \in BOOLEAN :
        IF environ.kv_name /\ credential
        THEN /\ pc' = "gs_read"
             /\ trace' = Append(trace, <<"client", PyBool(TRUE)>>)
        ELSE /\ pc' = "gs_default"
             /\ trace' = Append(trace, <<"client", PyBool(FALSE)>>)
    /\ UNCHANGED ret
    /\ UNCHANGED secretfixed

\* client.get_secret(secret_name).value inside try/except (lines 79-84)
GS_Read ==
    /\ prog = "get_secret" /\ pc = "gs_read"
    /\ \E result \in ReadOutcomes :
        /\ trace' = trace \o <<<<"name", PyOr(environ.kv_secret_name,
                                               PyStr(Str_EnvName))>>,
                               <<"read", result>>>>
        /\ IF result = ReadFailed
           THEN /\ pc' = "gs_default"
                /\ UNCHANGED ret
           ELSE /\ ret' = SecretValue(result)
                /\ pc' = "gs_done"
    /\ UNCHANGED secretfixed

\* the default value or KeyError (lines 86-95)
GS_Default ==
    /\ prog = "get_secret" /\ pc = "gs_default"
    /\ ret' = (IF environ.default_value # PyNone THEN environ.default_value
               ELSE KeyErrorRaised)
    /\ pc' = "gs_done"
    /\ trace' = Append(trace, <<"default", environ.default_value>>)
    /\ UNCHANGED secretfixed

-----------------------------------------------------------------------------
(* Specifications *)

InitCommon ==
    /\ encoded_path = <<>>
    /\ cands = <<>>
    /\ idx = 0
    /\ success_count = 0
    /\ ret = NotReturned
    /\ site_id = FALSE
    /\ download_url = NoUrl
    /\ file_content = NoContent
    /\ parsed_data = "none"
    /\ search_results = <<>>
    /\ j = 0
    /\ trace = <<>>
    /\ attempted = {}
    /\ marked = {}
    /\ outputs = {}
    /\ offered = {}

\* no call of get_secret is under way
NoEnviron == [env |-> PyNone, kv_name |-> FALSE, kv_secret_name |-> PyNone,
              default_value |-> PyNone]

\* no workbook processing is running
InitNoWorkbook ==
    /\ content = NoWorkbook
    /\ access_token = PyNone
    /\ original_name = <<>>
    /\ merged_cells = {}
    /\ content_lines = <<>>
    /\ files = {}
    /\ run = 0
    /\ first = [content |-> NoWorkbook, text |-> <<>>]
    /\ environ = NoEnviron

\* a run of one of the two orchestrators over a list of at most MaxItems rows
Init ==
    /\ prog \in {"psf", "pslf"}
    /\ pc = "start"
    /\ items \in RowLists(RunFields, MaxItems)
    /\ arg_path = <<>>
    /\ arg_filename = <<>>
    /\ InitCommon
    /\ InitNoWorkbook

Next ==
    \/ PSF_Auth \/ PSF_Scan \/ PSF_Item \/ PSF_AfterDownload \/ PSF_Process
    \/ PSF_Return \/ LoopAdvance
    \/ DL_Site \/ DL_Direct \/ DL_Search \/ DL_SearchItem
    \/ PSLF_Auth \/ PSLF_Scan \/ PSLF_Item \/ PSLF_Site \/ PSLF_Search
    \/ PSLF_ExactItem \/ PSLF_PartialItem \/ PSLF_Direct \/ PSLF_Search3
    \/ PSLF_FuzzyItem \/ PSLF_Fetch \/ PSLF_Process \/ PSLF_Summary
    \/ PSLF_Return

Spec == Init /\ [][Next]_vars

\* the candidate filters alone, over every combination of field values
InitScan ==
    /\ prog \in {"psf", "pslf"}
    /\ pc = "start"
    /\ items \in RowLists(RichFields, 1)
    /\ arg_path = <<>>
    /\ arg_filename = <<>>
    /\ InitCommon
    /\ InitNoWorkbook

NextScan == PSF_Auth \/ PSF_Scan \/ PSLF_Auth \/ PSLF_Scan

SpecScan == InitScan /\ [][NextScan]_vars

\* the rows the candidates of a scan come from
CandidateRows == {cands[c].row : c \in 1..Len(cands)}

\* the next call of the orchestrator: every local starts afresh (lines
\* 481-484, 1029-1035); only the list itself is carried from run to run
RunAgain ==
    /\ prog \in {"psf", "pslf"} /\ pc \in {"item", "done"}
    /\ pc' = "start"
    /\ cands' = <<>>
    /\ idx' = 0
    /\ success_count' = 0
    /\ ret' = NotReturned
    /\ trace' = <<>>
    /\ offered' = offered \cup CandidateRows
    /\ UNCHANGED <<prog, items, arg_path, arg_filename, encoded_path,
                   site_id, download_url, file_content, parsed_data,
                   search_results, j, attempted, marked, outputs, environ>>
    /\ UNCHANGED wbvars

\* run after run of the candidate filters over the same list
NextRerun == NextScan \/ RunAgain

SpecRerun == InitScan /\ [][NextRerun]_vars

\* the paths a record can hold: none, blank, plain, under either form of
\* the library root, the root alone, with one or two trailing slashes
ResolverPaths ==
    {<<>>, <<" ", " ">>, Str_Reports, Str_SharedDocuments \o Str_Reports,
     Str_SlashSharedDocuments \o Str_Reports, Str_SharedDocuments,
     Str_Reports \o <<"/">>, Str_Reports \o <<"/", "/">>}

\* one call of download_sharepoint_file_from_path
InitResolver ==
    /\ prog = "dsffp"
    /\ pc = "dl_site"
    /\ items = <<>>
    /\ arg_path \in ResolverPaths
    /\ arg_filename \in {Str_WeeklyXlsx, Str_W1}
    /\ InitCommon
    /\ InitNoWorkbook

NextResolver == DL_Site \/ DL_Direct \/ DL_Search \/ DL_SearchItem

SpecResolver == InitResolver /\ [][NextResolver]_vars

\* a list of n rows that every filter accepts; row k has id k
EligibleRows(n) ==
    [k \in 1..n |->
        [id |-> k,
         fields |-> MkFields(PyStr(Str_Reports), PyStr(Str_Weekly),
                             PyStr(Str_JulianBrown), "Monthlyreportprocessed",
                             PyBool(FALSE))]]

\* the per-item loops alone, after a scan that found 1 to MaxCandidates
\* candidates
InitLoop ==
    /\ prog \in {"psf", "pslf"}
    /\ pc = "item"
    /\ \E n \in 1..MaxCandidates : items = EligibleRows(n)
    /\ cands = (IF prog = "psf" THEN excel_files(items)
                ELSE report_files(items))
    /\ idx = 1
    /\ success_count = 0
    /\ ret = NotReturned
    /\ arg_path = <<>>
    /\ arg_filename = <<>>
    /\ encoded_path = <<>>
    /\ site_id = FALSE
    /\ download_url = NoUrl
    /\ file_content = NoContent
    /\ parsed_data = "none"
    /\ search_results = <<>>
    /\ j = 0
    /\ trace = <<>>
    /\ attempted = {}
    /\ marked = {}
    /\ outputs = {}
    /\ offered = {}
    /\ InitNoWorkbook

NextLoop == LoopBody \/ LoopAdvance \/ PSF_Return \/ PSLF_Return

SpecLoop == InitLoop /\ [][NextLoop]_vars

\* names of the items a search for the fixed key terms can return; an item
\* without a name reads as '' (item.get('name', ''), line 1187)
FuzzyNames == {<<>>, Str_Old, Str_CSFlexW1, Str_Weekly}

\* Method 3 of process_sharepoint_list_files alone, from the answer of its
\* search on: the candidate is the row of EligibleRows(1)
InitFuzzy ==
    /\ prog = "pslf"
    /\ pc = "l_fuzzy_loop"
    /\ items = EligibleRows(1)
    /\ cands = report_files(items)
    /\ idx = 1
    /\ success_count = 0
    /\ ret = NotReturned
    /\ arg_path = cands[1].path
    /\ arg_filename = cands[1].filename
    /\ encoded_path = ServerRelativeUrl(arg_path, arg_filename)
    /\ site_id = TRUE
    /\ download_url = NoUrl
    /\ file_content = NoContent
    /\ parsed_data = "none"
    /\ \E m \in 0..MaxResults : \E ns \in [1..m -> FuzzyNames] :
        search_results = [k \in 1..m |-> [id |-> k, name |-> ns[k]]]
    /\ j = 1
    /\ trace = <<"resolve_start", "site_ok", "fuzzy_search_ok">>
    /\ attempted = {1}
    /\ marked = {}
    /\ outputs = {}
    /\ offered = {}
    /\ InitNoWorkbook

NextFuzzy == PSLF_FuzzyItem \/ PSLF_Fetch

SpecFuzzy == InitFuzzy /\ [][NextFuzzy]_vars

\* one call of get_sharepoint_list_items for the list of the uploads
InitListQuery ==
    /\ prog = "glist"
    /\ pc = "gl_site"
    /\ items = <<>>
    /\ arg_path = <<>>
    /\ arg_filename = Str_ListName
    /\ InitCommon
    /\ InitNoWorkbook

NextListQuery ==
    GL_Site \/ GL_Root \/ GL_SiteSearch \/ GL_List \/ GL_Lists \/ GL_Match

SpecListQuery == InitListQuery /\ [][NextListQuery]_vars

\* one call of get_secret(env_name, kv_secret_name, default_value)
InitSecret ==
    /\ prog = "get_secret"
    /\ pc = "gs_env"
    /\ items = <<>>
    /\ arg_path = <<>>
    /\ arg_filename = <<>>
    /\ InitCommon
    /\ content = NoWorkbook
    /\ access_token = PyNone
    /\ original_name = <<>>
    /\ merged_cells = {}
    /\ content_lines = <<>>
    /\ files = {}
    /\ run = 0
    /\ first = [content |-> NoWorkbook, text |-> <<>>]
    /\ environ \in [env : {PyNone, PyStr(<<>>), PyStr(Str_e)},
                     kv_name : BOOLEAN,
                     kv_secret_name : {PyNone, PyStr(Str_k)},
                     default_value : {PyNone, PyStr(<<>>), PyStr(Str_d)}]

NextSecret == GS_Env \/ GS_Client \/ GS_Read \/ GS_Default

SpecSecret == InitSecret /\ [][NextSecret]_vars

\* one call of upload_text_to_sharepoint with a token
InitUpload ==
    /\ prog = "upload"
    /\ pc = "up_check"
    /\ items = <<>>
    /\ arg_path = <<>>
    /\ arg_filename = <<>>
    /\ InitCommon
    /\ content = NoWorkbook
    /\ access_token = PyStr(<<"t">>)
    /\ original_name = Str_WeeklyXlsx
    /\ merged_cells = {}
    /\ content_lines = <<>>
    /\ files = {}
    /\ run = 0
    /\ first = [content |-> NoWorkbook, text |-> <<>>]
    /\ environ = NoEnviron

NextUpload ==
    \/ UP_Check \/ UP_Site \/ UP_Put
    \/ UP_Drives \/ UP_DrivePut \/ UP_Folders \/ UP_Final

SpecUpload == InitUpload /\ [][NextUpload]_vars

\* two calls of the workbook processing on the same bytes
InitWorkbook ==
    /\ prog = "pwc"
    /\ pc = "wb_load"
    /\ items = <<>>
    /\ arg_path = <<>>
    /\ arg_filename = <<>>
    /\ InitCommon
    /\ content \in Workbooks
    /\ access_token \in Tokens
    /\ original_name \in OutputNames
    /\ merged_cells = {}
    /\ content_lines = <<>>
    /\ files = {}
    /\ run = 1
    /\ first = [content |-> content, text |-> <<>>]
    /\ environ = NoEnviron

NextWorkbook == WB_Load \/ WB_Sheet \/ WB_Extract \/ WB_Publish \/ WB_Again

SpecWorkbook == InitWorkbook /\ [][NextWorkbook]_vars

-----------------------------------------------------------------------------
(* Properties *)

InTrace(e) == \E k \in 1..Len(trace) : trace[k] = e

\* some event of the set occurs in the trace before position k
Earlier(k, events) == \E m \in 1..(k - 1) : trace[m] \in events

PublishEvents == {"upload_ok", "local_write_ok"}
OutputEvents == {"upload_ok", "local_write_ok", "summary_write_ok"}
DirectEvents == {"direct_meta_ok", "direct_meta_fail", "direct_no_url",
                 "direct_content_ok", "direct_content_fail"}
ExactEvents == {"exact_search_ok", "exact_search_fail", "exact_detail_ok",
                "exact_detail_fail", "exact_no_url", "exact_content_ok",
                "exact_content_fail"}
FuzzyEvents == {"fuzzy_search_ok", "fuzzy_search_fail", "fuzzy_detail_ok",
                "fuzzy_detail_fail", "fuzzy_no_url"}

\* the filter of the running pipeline accepts the row
StillCandidate(row) ==
    IF prog = "psf" THEN AcceptsPSF(items[row].fields)
    ELSE AcceptsPSLF(items[row].fields)

\* the artifact of the item being handled was published
ArtifactPublished == \E e \in PublishEvents : InTrace(e)

\* C1: once the artifact of an item is published, the run has set the
\* processed flag of its row, and the filter no longer accepts the row.
C1_PublishedIsMarked ==
    (pc = "next" /\ ArtifactPublished) =>
        /\ cands[idx].item_id \in marked
        /\ ~StillCandidate(cands[idx].row)

\* some processed column of the row holds the boolean true
RowProcessedTrue(fields) ==
    \E c \in ProcessedColumns : Get(fields, c, PyNone) = PyBool(TRUE)

OwnerMatches(fields) ==
    Get(fields, "manager", PyStr(<<>>)) = PyStr(Str_JulianBrown)

\* C2: no row whose processed flag is true, and no row of another manager,
\* is ever handled by the per-item loop.
C2_NoProcessedOrForeignCandidate ==
    \A k \in attempted :
        /\ ~RowProcessedTrue(items[cands[k].row].fields)
        /\ OwnerMatches(items[cands[k].row].fields)

NonEmptyField(fields, name) ==
    name \in DOMAIN fields /\ fields[name].s # <<>>

\* C3: every accepted candidate comes from a row whose Path and
\* Reportfilename fields are present and non-empty.
C3_CandidateHasPathAndFilename ==
    \A k \in 1..Len(cands) :
        /\ NonEmptyField(items[cands[k].row].fields, "Path")
        /\ NonEmptyField(items[cands[k].row].fields, "Reportfilename")

\* the value of the processed column the row has, Absent when it has none
RowFlag(fields) ==
    IF \E c \in ProcessedColumns : c \in DOMAIN fields
    THEN fields[CHOOSE c \in ProcessedColumns : c \in DOMAIN fields]
    ELSE Absent

\* the representations of "processed" the pipeline recognises
RecognizedTrue ==
    {PyBool(TRUE), PyStr(Str_Yes), PyStr(Str_true), PyStr(Str_1), PyInt(1),
     PyStr(Str_True)}

\* the list was read and the filter was applied to its rows
Scanned == pc \in {"item", "done"} /\ trace = <<"list_ok">>

IsCandidate(k) == \E c \in 1..Len(cands) : cands[c].row = k

\* C4: a row whose processed flag is false, absent or in an unrecognised
\* representation, with the owner tag of the filter and a non-empty path and
\* filename, is among the candidates after the scan.
C4_UnprocessedIsCandidate ==
    Scanned =>
        \A k \in 1..Len(items) :
            ( /\ RowFlag(items[k].fields) \notin RecognizedTrue
              /\ OwnerMatches(items[k].fields)
              /\ NonEmptyField(items[k].fields, "Path")
              /\ NonEmptyField(items[k].fields, "Reportfilename") )
            => IsCandidate(k)

C4_Witness ==
    /\ Scanned
    /\ \E k \in 1..Len(items) :
        /\ RowFlag(items[k].fields) \in {PyStr(Str_No), PyInt(2), PyNone, Absent}
        /\ OwnerMatches(items[k].fields)
        /\ IsCandidate(k)

\* C5: when the run ends, the body of the per-item loop was entered for every
\* candidate of the list the loop iterates over, whatever happened to the
\* items before it.
C5_EveryCandidateAttempted ==
    (pc = "done" /\ cands # <<>>) => attempted = 1..Len(LoopList)

C5_Witness ==
    /\ idx = 2 /\ success_count = 0
    /\ 2 \in attempted
    /\ pc \in {"dl_site", "l_site"}

\* C6: the value a run returns is the number of items it marked processed.
C6_ReturnsMarkedCount ==
    pc = "done" => ret.n = Cardinality(marked)

\* C7: for the item being handled, extraction starts only after resolution
\* returned content, an output is written or uploaded only after extraction
\* succeeded, and the item is counted only after its publish succeeded.
C7_StagesInOrder ==
    \A k \in 1..Len(trace) :
        /\ trace[k] = "extract_start" => Earlier(k, {"resolve_ok"})
        /\ trace[k] \in OutputEvents => Earlier(k, {"extract_ok"})
        /\ trace[k] = "counted" => Earlier(k, PublishEvents)

\* C8: an exact-name search happens only after a direct lookup, and a fuzzy
\* search only after a direct lookup and an exact-name search.
C8_StrategyOrder ==
    \A k \in 1..Len(trace) :
        /\ trace[k] \in ExactEvents => Earlier(k, DirectEvents)
        /\ trace[k] \in FuzzyEvents =>
               Earlier(k, DirectEvents) /\ Earlier(k, ExactEvents)

\* C9: when the resolver returns no content after the direct lookup failed
\* with a status (metadata, handle or content), it has tried the exact-name
\* search.
C9_FallThroughOnContentFailure ==
    ( /\ pc = "dl_ret"
      /\ file_content = NoContent
      /\ \E e \in {"direct_meta_fail", "direct_no_url", "direct_content_fail"} :
            InTrace(e)
      /\ ~InTrace("exception") )
    => (InTrace("exact_search_ok") \/ InTrace("exact_search_fail"))

\* C10: when the direct lookup answered with a non-success status, the
\* resolver goes on to the exact-name search, and when the detail and content
\* fetches of a result named exactly like the file succeed, it returns the
\* content of that result, got by the search.
C10_ExactSearchAfterDirectMiss ==
    pc = "dl_ret" =>
        /\ (InTrace("direct_meta_fail") /\ ~InTrace("exception"))
               => (InTrace("exact_search_ok") \/ InTrace("exact_search_fail"))
        /\ InTrace("exact_content_ok") =>
               /\ InTrace("direct_meta_fail")
               /\ ~InTrace("direct_content_ok")
               /\ file_content.via = "search"
               /\ file_content.name = arg_filename
               /\ file_content.id \in 1..Len(trace)

C10_Witness ==
    /\ pc = "dl_ret"
    /\ InTrace("direct_meta_fail")
    /\ InTrace("exact_content_ok")
    /\ file_content.via = "search"
    /\ file_content.name = arg_filename

\* C11: when the resolution of the item being handled ended without content,
\* the item is not counted as processed and no output exists for it when the
\* loop moves on.
C11_NotFoundIsNotCounted ==
    (pc = "next" /\ InTrace("resolve_fail")) =>
        /\ ~InTrace("counted")
        /\ outputs = {}

\* C12: when the extraction of the item being handled failed, the item is
\* not counted as processed when the loop moves on.
C12_ExtractionFailureIsNotCounted ==
    (pc = "next" /\ InTrace("extract_fail")) => ~InTrace("counted")

\* the workbook processing has returned
Returned == prog = "pwc" /\ pc = "wb_done"

\* b is n without its last dot and what follows it (n itself when n has no
\* dot)
IsBase(b, n) ==
    \/ (\A k \in 1..Len(n) : n[k] # ".") /\ b = n
    \/ \E k \in 1..Len(n) :
        /\ n[k] = "."
        /\ \A m \in (k + 1)..Len(n) : n[m] # "."
        /\ b = SubSeq(n, 1, k - 1)

\* f is the artifact of the call: named <base>.txt, holding the whole text
IsArtifact(f) ==
    /\ \E b \in {SubSeq(original_name, 1, k) : k \in 0..Len(original_name)} :
        IsBase(b, original_name) /\ f.name = b \o <<".", "t", "x", "t">>
    /\ f.text = JoinLines(content_lines)

\* C13: when the upload failed, the publisher goes on to the local save, and
\* when it then reports success, the local file named <base>.txt exists and
\* holds the whole extracted text.
C13_FailedUploadLeavesLocalFile ==
    (Returned /\ InTrace("upload_fail")) =>
        /\ InTrace("local_write_ok") \/ InTrace("local_write_fail")
        /\ ret = PyBool(TRUE) =>
               \E f \in files : f.where = "local" /\ IsArtifact(f)

C13_Witness ==
    /\ Returned /\ InTrace("upload_fail") /\ ret = PyBool(TRUE)
    /\ original_name = Str_TwoDots
    /\ \E f \in files : f.where = "local" /\ IsArtifact(f)

\* C14: when no access token is passed, the publisher issues no upload
\* request and writes the artifact to the local file.
C14_NoTokenWritesLocally ==
    (Returned /\ InTrace("extract_ok") /\ ~Truthy(access_token)) =>
        /\ ~InTrace("upload_start")
        /\ \A f \in files : f.where = "local"
        /\ InTrace("local_write_ok") \/ InTrace("local_write_fail")
        /\ InTrace("local_write_ok") =>
               \E f \in files : f.where = "local" /\ IsArtifact(f)

C14_Witness ==
    /\ Returned /\ access_token = PyNone /\ run = 1
    /\ InTrace("local_write_ok")
    /\ files # {}

\* C15: once the text is extracted, the publish step reports failure exactly
\* when the local save failed; a failed upload alone never does.
C15_OnlyLocalFailureFails ==
    (Returned /\ InTrace("extract_ok")) =>
        (ret = PyBool(FALSE) <=> InTrace("local_write_fail"))

C15_Witness ==
    /\ Returned /\ run = 1
    /\ InTrace("upload_fail") /\ InTrace("local_write_fail")
    /\ ret = PyBool(FALSE)

\* C16: when the extraction of the item being handled failed, nothing was
\* uploaded or written for it when the loop moves on.
C16_NothingPublishedAfterFailedExtraction ==
    (pc = "next" /\ InTrace("extract_fail")) =>
        /\ outputs = {}
        /\ \A e \in OutputEvents : ~InTrace(e)

AnchorMerged ==
    \E r \in content.merged :
        r.min_col <= 5 /\ 5 <= r.max_col /\ r.min_row <= 33 /\ 33 <= r.max_row

\* the merge handling is over
Normalized == prog = "pwc" /\ pc \in {"wb_extract", "wb_publish", "wb_done"}
                /\ InTrace("load_ok") /\ ~InTrace("no_sheet")

\* the merged range has a cell in columns D..S, rows 31..72
InRectangle(r) == \E col \in 4..19, row \in 31..72 : InRange(col, row, r)

C19_UnmergedAnchorSplitsNothing ==
    (Normalized /\ ~AnchorMerged) =>
        /\ merged_cells = content.merged
        /\ pc # "wb_extract" => InTrace("extract_ok")

C19_Witness ==
    /\ Returned /\ InTrace("extract_ok") /\ ~AnchorMerged
    /\ Range(10, 34, 11, 34) \in merged_cells
    /\ Range(2, 42, 4, 42) \in merged_cells

\* the text of a cell as the artifact shows it
CellText(col, row) == FormatValue(CellValue(content, col, row))

\* the lines that follow the column header of a section, up to the next
\* empty line
SectionOf(lines, header) ==
    LET h == CHOOSE k \in 1..Len(lines) : lines[k] = header
        e == CHOOSE k \in (h + 1)..Len(lines) :
                 lines[k] = <<>> /\ \A m \in (h + 1)..(k - 1) : lines[m] # <<>>
    IN  SubSeq(lines, h + 1, e - 1)

\* the identifier cell of the row holds something
NonEmptyId(row) == CellValue(content, 4, row) \notin {PyNone, PyStr(<<>>)}

\* the section consists of rows of the range with a non-empty identifier,
\* in ascending row order; Line(row) is the line of a row
SectionInOrder(section, rows, Line(_)) ==
    /\ \A i \in 1..Len(section) :
           \E row \in rows : NonEmptyId(row) /\ section[i] = Line(row)
    /\ \A i \in 1..Len(section), k \in 1..Len(section) :
           i < k => \E row \in rows, later \in rows :
                        /\ row < later
                        /\ section[i] = Line(row)
                        /\ section[k] = Line(later)

StandardLine(row) ==
    CellText(4, row) \o <<"|">> \o CellText(10, row) \o <<"|">>
    \o CellText(11, row)

RiskLine(row) ==
    CellText(4, row) \o <<"|">> \o CellText(5, row) \o <<"|">>
    \o CellText(8, row) \o <<"|">> \o CellText(10, row) \o <<"|">>
    \o CellText(11, row)

IssueLine(row) ==
    CellText(4, row) \o <<"|">> \o CellText(5, row) \o <<"|">>
    \o CellText(10, row) \o <<"|">> \o CellText(11, row)

\* C20: in the artifact, the service standards section holds lines D|J|K of
\* rows 34..42, the risks section lines D|E|H|J|K of rows 45..47, the issues
\* section lines D|E|J|K of rows 50..52; each line belongs to a row whose
\* identifier cell is non-empty, and the lines are in ascending row order.
C20_SectionRowsFilteredAndOrdered ==
    (prog = "pwc" /\ InTrace("extract_ok")) =>
        /\ SectionInOrder(SectionOf(content_lines, Str_SSNHeader), 34..42,
                          StandardLine)
        /\ SectionInOrder(SectionOf(content_lines, Str_RiskHeader), 45..47,
                          RiskLine)
        /\ SectionInOrder(SectionOf(content_lines, Str_IssueHeader), 50..52,
                          IssueLine)

C20_Witness ==
    /\ Returned /\ InTrace("extract_ok")
    /\ content.ids = {34, 42}
    /\ Range(2, 42, 4, 42) \notin content.merged
    /\ Len(SectionOf(content_lines, Str_SSNHeader)) = 2
    /\ SectionOf(content_lines, Str_RiskHeader) = <<>>

\* the line that follows the given line in the artifact
LineAfter(lines, head) ==
    LET h == CHOOSE k \in 1..Len(lines) : lines[k] = head
    IN  lines[h + 1]

\* C21: the line under "Planned Activities:" holds the text of D57 and the
\* line under "Client Updates:" the text of D67; when the cell has no value
\* the line is the empty string, and it is never the word None.
C21_AbsentFreeTextIsEmpty ==
    (prog = "pwc" /\ InTrace("extract_ok")) =>
        \A cell \in {<<Str_PlannedActivities, 57>>,
                     <<Str_ClientUpdates, 67>>} :
            LET line == LineAfter(content_lines, cell[1])
                value == CellValue(content, 4, cell[2])
            IN  /\ value = PyNone => line = <<>>
                /\ value # PyNone => line = FormatValue(value)
                /\ line # Str_None

C21_Witness ==
    /\ Returned /\ InTrace("extract_ok")
    /\ CellValue(content, 4, 67) = PyNone
    /\ CellValue(content, 4, 57) # PyNone
    /\ LineAfter(content_lines, Str_ClientUpdates) = <<>>
    /\ Len(LineAfter(content_lines, Str_PlannedActivities)) > 0

\* the text an optional cell is expected to give: nothing when it has no
\* value
EmptyIfMissing(col, row) ==
    IF CellValue(content, col, row) = PyNone THEN <<>>
    ELSE CellText(col, row)

\* the line of a row whose optional columns are empty when they have no value
OptionalLine(row, cols) ==
    JoinWith(<<CellText(4, row)>>
             \o [k \in 1..Len(cols) |-> EmptyIfMissing(cols[k], row)],
             <<"|">>)

HasLine(line) == \E k \in 1..Len(content_lines) : content_lines[k] = line

\* C22: the three header lines end with the value of G7, G11 and G13, and
\* the line of an included row holds the values of its other columns; a cell
\* without value gives an empty value there.
C22_MissingOptionalCellIsEmpty ==
    (prog = "pwc" /\ InTrace("extract_ok")) =>
        /\ content_lines[1] = Str_WeekEnding \o EmptyIfMissing(7, 7)
        /\ content_lines[2] = Str_ServiceProvider \o EmptyIfMissing(7, 11)
        /\ content_lines[3] = Str_Client \o EmptyIfMissing(7, 13)
        /\ \A row \in 34..42 :
               Truthy(CellValue(content, 4, row)) =>
                   HasLine(OptionalLine(row, <<10, 11>>))
        /\ \A row \in 45..47 :
               Truthy(CellValue(content, 4, row)) =>
                   HasLine(OptionalLine(row, <<5, 8, 10, 11>>))
        /\ \A row \in 50..52 :
               Truthy(CellValue(content, 4, row)) =>
                   HasLine(OptionalLine(row, <<5, 10, 11>>))

\* no row of the range has an identifier that includes it
NoIncludedRow(rows) == \A row \in rows : ~Truthy(CellValue(content, 4, row))

Str_SSN1GreenOk ==
    <<"S", "S", "N", "1", "|", "G", "r", "e", "e", "n", "|", "o", "k">>

\* row 34 is the service standard SSN1 with status Green and comment ok
IsExampleRow ==
    /\ CellValue(content, 4, 34) = PyStr(<<"S", "S", "N", "1">>)
    /\ CellValue(content, 10, 34) = PyStr(<<"G", "r", "e", "e", "n">>)
    /\ CellValue(content, 11, 34) = PyStr(<<"o", "k">>)

\* C23: a section without included row has the empty line directly under its
\* column header, and the sheet whose row 34 is SSN1 / Green / ok gives the
\* line SSN1|Green|ok.
C23_EmptySectionHasHeaderOnly ==
    (prog = "pwc" /\ InTrace("extract_ok")) =>
        /\ NoIncludedRow(34..42) =>
               LineAfter(content_lines, Str_SSNHeader) = <<>>
        /\ NoIncludedRow(45..47) =>
               LineAfter(content_lines, Str_RiskHeader) = <<>>
        /\ NoIncludedRow(50..52) =>
               LineAfter(content_lines, Str_IssueHeader) = <<>>
        /\ IsExampleRow => HasLine(Str_SSN1GreenOk)

C23_Witness ==
    /\ Returned /\ InTrace("extract_ok")
    /\ IsExampleRow
    /\ NoIncludedRow(35..42) /\ NoIncludedRow(45..47)
    /\ SectionOf(content_lines, Str_SSNHeader) = <<Str_SSN1GreenOk>>
    /\ LineAfter(content_lines, Str_RiskHeader) = <<>>

\* C24: every artifact written for a candidate is named <base>.txt, where
\* <base> is the filename of the candidate without its last extension.
C24_ArtifactNamedAfterRecord ==
    \A o \in outputs :
        o.kind = "artifact" => o.name = ArtifactName(cands[o.pos].filename)

\* the filename of the row: fields.get('Reportfilename', '')
RawFilename(row) == Get(items[row].fields, "Reportfilename", PyStr(<<>>)).s

EndsWith(s, suffix) ==
    /\ Len(s) >= Len(suffix)
    /\ SubSeq(s, Len(s) - Len(suffix) + 1, Len(s)) = suffix

\* C25: after the scan every candidate's filename ends in .xlsx; it is the
\* filename of its row when that one ends in .xlsx already, and the filename
\* of its row followed by .xlsx otherwise.
C25_FilenameNormalizedOnce ==
    Scanned =>
        \A c \in 1..Len(cands) :
            LET raw == RawFilename(cands[c].row) IN
            /\ EndsWith(cands[c].filename, Str_xlsx)
            /\ EndsWith(raw, Str_xlsx) => cands[c].filename = raw
            /\ ~EndsWith(raw, Str_xlsx) => cands[c].filename = raw \o Str_xlsx

\* C26: a run that ends with the outcome of an empty list had an empty list:
\* a list that could not be reached gives another outcome.
C26_ConnectionFailureIsNotEmptyList ==
    (pc = "done" /\ trace = <<"list_empty">>) => items = <<>>

\* a request to the file store raised while the item was resolved
StoreUnreachable == \E k \in 2..Len(trace) : trace[k] = "exception"

\* C27: when the file store was unreachable during an item, the loop does
\* not go on to a later candidate.
C27_ConnectionErrorStopsRun ==
    [][(pc = "next" /\ StoreUnreachable) => idx' > Len(LoopList)]_vars

\* C28: when the run ends after the scan found candidates, every candidate
\* of the scan was taken by the loop and reached the end of its body.
C28_EveryCandidateTerminal ==
    (pc = "done" /\ cands # <<>>) => attempted = 1..Len(cands)

\* the entries of the trace that stand for a request sent with the token
RequestKinds ==
    {"metadata", "site", "put", "drives", "drive_put", "folders", "final_put"}

\* C29: once a request was answered 401 (credential expired) or 403
\* (forbidden), the upload sends no further request with the same token; a
\* 404 of a target path is followed by the next path.
C29_StatusClassified ==
    prog = "upload" =>
        \A k \in 1..Len(trace) :
            trace[k] \in {"401", "403"} =>
                \A m \in (k + 1)..Len(trace) : trace[m] \notin RequestKinds

\* row b is row a, but for a processed flag that was set to true
SameButFlag(a, b) ==
    /\ b.id = a.id
    /\ DOMAIN b.fields \ ProcessedColumns = DOMAIN a.fields \ ProcessedColumns
    /\ \A f \in DOMAIN b.fields :
           \/ f \in DOMAIN a.fields /\ b.fields[f] = a.fields[f]
           \/ f \in ProcessedColumns /\ b.fields[f] = PyBool(TRUE)

Rootless(path) ==
    LET q == IF path # <<>> /\ Head(path) = "/" THEN Tail(path) ELSE path
    IN  IF StartsWith(q, Str_SharedDocuments)
        THEN DropPrefix(q, Len(Str_SharedDocuments))
        ELSE path

\* s with every run of slashes replaced by one slash
RECURSIVE Collapse(_)
Collapse(s) ==
    IF Len(s) < 2 THEN s
    ELSE IF s[1] = "/" /\ s[2] = "/" THEN Collapse(Tail(s))
         ELSE <<s[1]>> \o Collapse(Tail(s))

\* the path of the record joined with the filename
RecordFilePath(path, filename) ==
    Quote(Collapse(<<"/">> \o Rootless(path) \o <<"/">> \o filename))

PathBuilt == prog = "dsffp" /\ pc # "dl_site"

SharedTokens(a, b) ==
    {SplitWords(a)[k] : k \in 1..Len(SplitWords(a))}
        \cap {SplitWords(b)[k] : k \in 1..Len(SplitWords(b))}

\* C33: the fuzzy search (Method 3) uses a search result only if its name
\* shares at least one token with the requested filename, the least
\* minimum an overlap test can be configured with.
C33_FuzzyNeedsSharedToken ==
    (prog = "pslf" /\ download_url.via = "fuzzy")
        => SharedTokens(download_url.name, arg_filename) # {}

SecretReturned == prog = "get_secret" /\ pc = "gs_done"

\* the value that a successful Key Vault read gave, if there was one
ReadValues ==
    {trace[k][2] : k \in {i \in 1..Len(trace) :
                            trace[i][1] = "read" /\ trace[i][2] # ReadFailed}}

\* C34: get_secret returns the environment variable when it is non-empty;
\* otherwise the Key Vault value when a client exists and the read
\* succeeds; otherwise the default value when one was given; it raises
\* KeyError only when all three yield nothing, and a failed Key Vault read
\* alone never raises.
C34_SecretLookupOrder ==
    SecretReturned =>
        /\ Truthy(environ.env) =>
                ret = environ.env /\ Len(trace) = 1
        /\ (~Truthy(environ.env) /\ ReadValues # {}) =>
                \E v \in ReadValues :
                    ret = (IF v = PyNone THEN PyStr(<<>>) ELSE v)
        /\ (~Truthy(environ.env) /\ ReadValues = {}
                /\ environ.default_value # PyNone) =>
                ret = environ.default_value
        /\ ret = KeyErrorRaised <=>
                (~Truthy(environ.env) /\ ReadValues = {}
                    /\ environ.default_value = PyNone)
        /\ InTrace(<<"read", ReadFailed>>) =>
                (ret = KeyErrorRaised <=> environ.default_value = PyNone)

C34_Witness ==
    /\ SecretReturned
    /\ InTrace(<<"read", ReadFailed>>)
    /\ environ.default_value = PyStr(Str_d)
    /\ ret = PyStr(Str_d)

ResolverReturned == prog = "dsffp" /\ pc = "dl_ret"

\* C35: whatever download_sharepoint_file_from_path returns was fetched
\* from the path built for the direct lookup or from a search result named
\* exactly as the requested file; otherwise it returns None.
C35_NoOtherFileReturned ==
    ResolverReturned =>
        \/ file_content = NoContent
        \/ /\ file_content.via = "direct"
           /\ file_content.name = arg_filename
           /\ InTrace("direct_content_ok")
        \/ /\ file_content.via = "search"
           /\ file_content.name = arg_filename
           /\ InTrace("exact_content_ok")

C35_Witness ==
    /\ ResolverReturned
    /\ file_content.via = "search"
    /\ file_content.name = arg_filename
    /\ j = 0 /\ InTrace("exact_detail_fail")

\* the workbook processing of the item being handled returned success
ProcessingSucceeded == InTrace("upload_ok") \/ InTrace("local_write_ok")

\* how many times the item being handled was counted
CountedTimes == Cardinality({k \in 1..Len(trace) : trace[k] = "counted"})

\* C36: in process_sharepoint_files the counter goes up by one, once, for
\* an item whose download returned content and whose workbook processing
\* returned success, and for no other item; it stays between 0 and the
\* number of items handled so far; the function returns True exactly when
\* the counter is positive.
C36_SuccessCounted ==
    /\ [](prog = "psf" =>
            /\ pc = "next" =>
                 CountedTimes = (IF InTrace("resolve_ok") /\ ProcessingSucceeded
                                 THEN 1 ELSE 0)
            /\ success_count >= 0
            /\ success_count <= Cardinality(attempted)
            /\ pc = "done" => ret = PyBool(success_count > 0))
    /\ [][\/ success_count' = success_count
          \/ prog # "psf"
          \/ /\ success_count' = success_count + 1
             /\ pc = "process"
             /\ ~NoFileContent(file_content)
             /\ ~InTrace("counted")
             /\ trace'[Len(trace')] = "counted"]_vars

C36_Witness ==
    /\ prog = "psf" /\ pc = "done"
    /\ Cardinality(attempted) = 2
    /\ success_count = 1
    /\ ret = PyBool(TRUE)

\* the entries of the trace that stand for an upload request, in the order
\* the targets are to be tried
UploadRank(e) ==
    CASE e = "put" -> 1 [] e = "drive_put" -> 2 [] e = "final_put" -> 3
      [] OTHER -> 0

\* positions of the upload requests in the trace
UploadsSent == {k \in 1..Len(trace) : UploadRank(trace[k]) > 0}

UploadReturned == prog = "upload" /\ pc = "up_done"

\* C37: the upload requests go to the target paths first, then to the
\* document-library drives, then to the created folder; an upload answered
\* 200 or 201 is the last request and makes the function return True; False
\* is returned only when no upload was accepted; and after a failed site
\* lookup no upload request is sent.
C37_UploadOrder ==
    prog = "upload" =>
        /\ \A p \in UploadsSent : \A q \in UploadsSent :
               p < q => UploadRank(trace[p]) <= UploadRank(trace[q])
        /\ \A k \in UploadsSent :
               /\ trace[k] = "drive_put" => PathsTried = NumTargetPaths
               /\ trace[k] = "final_put" =>
                      PathsTried = NumTargetPaths /\ trace[k - 1] = "folders"
               /\ trace[k + 1] = "ok" =>
                      /\ k + 1 = Len(trace)
                      /\ pc = "up_done" /\ ret = PyBool(TRUE)
        /\ PathsTried <= NumTargetPaths
        /\ UploadReturned =>
               /\ ret \in {PyBool(TRUE), PyBool(FALSE)}
               /\ ret = PyBool(TRUE) <=>
                      \E k \in UploadsSent : trace[k + 1] = "ok"
        /\ (\E k \in 1..Len(trace) :
                trace[k] = "site" /\ trace[k + 1] # "ok") =>
               /\ UploadsSent = {}
               /\ UploadReturned /\ ret = PyBool(FALSE)

C37_Witness ==
    /\ UploadReturned
    /\ ret = PyBool(TRUE)
    /\ PathsTried = NumTargetPaths
    /\ InTrace("drive_put")
    /\ trace[Len(trace) - 1] = "final_put"

\* the section holds the line of the row
InSection(section, line) == \E i \in 1..Len(section) : section[i] = line

\* C38: every row of the three fixed ranges whose identifier cell holds a
\* non-empty value, the number 0 included, has its line in the section of
\* the artifact.
C38_NonEmptyIdEmitted ==
    (prog = "pwc" /\ InTrace("extract_ok")) =>
        /\ \A row \in 34..42 :
               NonEmptyId(row) =>
                   InSection(SectionOf(content_lines, Str_SSNHeader),
                             StandardLine(row))
        /\ \A row \in 45..47 :
               NonEmptyId(row) =>
                   InSection(SectionOf(content_lines, Str_RiskHeader),
                             RiskLine(row))
        /\ \A row \in 50..52 :
               NonEmptyId(row) =>
                   InSection(SectionOf(content_lines, Str_IssueHeader),
                             IssueLine(row))

\* the kind of request at position k of the trace was answered 200
AnsweredOk(kind, k) == trace[k] = kind /\ trace[k + 1] = "ok"

\* position of the first request of the kind, 0 when there is none
FirstOf(kind) ==
    IF InTrace(kind)
    THEN CHOOSE k \in 1..Len(trace) :
             trace[k] = kind /\ \A m \in 1..(k - 1) : trace[m] # kind
    ELSE 0

ListQueryReturned == prog = "glist" /\ pc = "gl_done"

\* the requests that read a list
ListRequests == {"list", "lists", "list_by_id"}

\* C39: get_sharepoint_list_items asks for the site directly, then for the
\* root site, then searches, each only after the one before was answered
\* with a status other than 200; a list is read only with a site id that
\* one of the three gave; without a site id it returns [] and reads no
\* list; and it returns a list whatever happens, [] after an exception.
C39_SiteLookupOrder ==
    prog = "glist" =>
        /\ InTrace("root") =>
               /\ FirstOf("site") = 1 /\ FirstOf("root") = 3
               /\ trace[2] \notin {"ok", "raise"}
        /\ InTrace("search") =>
               /\ FirstOf("root") = 3 /\ FirstOf("search") = 5
               /\ trace[4] \notin {"ok", "raise"}
        /\ \A k \in 1..Len(trace) :
               trace[k] \in ListRequests =>
                   /\ site_id
                   /\ \E m \in 1..(k - 1) :
                          \/ AnsweredOk("site", m) \/ AnsweredOk("root", m)
                          \/ AnsweredOk("search", m)
        /\ ListQueryReturned =>
               /\ ret.t = "list"
               /\ ~site_id =>
                      /\ ret = PyList(0)
                      /\ \A k \in 1..Len(trace) : trace[k] \notin ListRequests
               /\ InTrace("raise") => ret = PyList(0)

C39_Witness ==
    /\ ListQueryReturned
    /\ InTrace("search") /\ site_id
    /\ InTrace("list_by_id")
    /\ ret = PyList(1)

====
